---- MODULE Spec2Model ----
(***************************************************************************)
(* Model of the tag-value (FIX) codec of tx-common:                        *)
(*   protocols/fix/message_builder.{hpp,cpp}   MessageBuilder              *)
(*   protocols/fix/parser.{hpp,cpp}            Parser, FieldView,          *)
(*                                             MessageView                 *)
(* A string is a sequence of bytes 0..255.  Plain char is signed on the    *)
(* x86 targets the library builds for (sys/tsc_timer.hpp includes          *)
(* x86intrin.h), so a byte >= 128 read through `char` is negative.         *)
(***************************************************************************)
EXTENDS Integers, Sequences, FiniteSets, TLC

VARIABLES
  msg_type_,        \* MessageBuilder::msg_type_
  sender_comp_id_,  \* MessageBuilder::sender_comp_id_
  target_comp_id_,  \* MessageBuilder::target_comp_id_
  msg_seq_num_,     \* MessageBuilder::msg_seq_num_
  sending_time_,    \* MessageBuilder::sending_time_
  fields_,          \* MessageBuilder::fields_ : sequence of [tag, value, fill]
  built,            \* the caller's Result<std::string> of the latest build()
  prev_built,       \* the Result<std::string> of the build() before it
  buffer,           \* the std::string_view handed to Parser::parse
  parsed,           \* the Result<MessageView> of Parser::parse(buffer)
  chunks,           \* number of fragments the wire buffer was assembled from
  orig,             \* the accepted buffer a tampered buffer was derived from
  tamperPos,        \* the index of the changed byte (0: not tampered)
  span,             \* a std::string_view handed to one of the codec's functions
  tokenized,        \* the pair Parser::parse_field(span) returned
  converted,        \* the optional FieldView{0, span}.to_int() returned
  summed,           \* what the two calculate_checksum functions returned on span
  spanPieces,       \* number of fragments span was assembled from
  data,             \* the std::span<const std::byte> handed to the TAIFEX parser
  decoded,          \* the Result the TAIFEX parser returned on data
  head_,            \* SPSCQueue::head_
  tail_,            \* SPSCQueue::tail_
  buffer_,          \* SPSCQueue::buffer_ : slot index -> element
  done,             \* the done flag the producer thread sets
  consumed,         \* the values the consumer thread popped, in order
  accepted,         \* the values whose try_push returned true, in order
  producer,         \* the producer thread: its position and locals
  consumer          \* the consumer thread: its position and locals

builder == <<msg_type_, sender_comp_id_, target_comp_id_, msg_seq_num_,
             sending_time_, fields_>>
wire == <<buffer, parsed, chunks, orig, tamperPos>>
pure == <<span, tokenized, converted, summed, spanPieces>>
taifex == <<data, decoded>>
queue == <<head_, tail_, buffer_, done, consumed, accepted, producer, consumer>>
vars == <<msg_type_, sender_comp_id_, target_comp_id_, msg_seq_num_,
          sending_time_, fields_, built, prev_built, buffer, parsed, chunks,
          orig, tamperPos, span, tokenized, converted, summed, spanPieces, data,
          decoded, head_, tail_, buffer_, done, consumed, accepted, producer,
          consumer>>

----------------------------------------------------------------------------
(* Program constants *)

SOH == 1
EqualsSign == 61
MinusSign == 45
DigitZero == 48

TagBeginString == 8
TagBodyLength == 9
TagChecksum == 10
TagMsgType == 35
TagSenderCompId == 49
TagTargetCompId == 56
TagMsgSeqSum == 34
TagSendingTime == 52
TagClOrdID == 11

kMaxBodyLength == 99999
kChecksumModulo == 256
ChecksumWidth == 3
SentinelTag == -1
IntMax == 2147483647

\* std::string begin_string_ = "FIX.4.2"
begin_string_ == <<70, 73, 88, 46, 52, 46, 50>>

----------------------------------------------------------------------------
(* C++ primitives *)

\* a byte read through plain (signed) char and widened to int
CharToInt(b) == IF b >= 128 THEN b - 256 ELSE b

\* C++ integer remainder: truncation toward zero, the sign of the dividend
CRem(a, m) == IF a >= 0 THEN a % m ELSE -((-a) % m)

RECURSIVE Digits(_)
\* the decimal digits of n >= 0
Digits(n) == IF n < 10 THEN <<DigitZero + n>>
             ELSE Digits(n \div 10) \o <<DigitZero + (n % 10)>>

RECURSIVE ZeroPad(_, _)
ZeroPad(s, w) == IF Len(s) >= w THEN s ELSE ZeroPad(<<DigitZero>> \o s, w)

\* fmt "{}" of an int
FormatInt(n) == IF n < 0 THEN <<MinusSign>> \o Digits(-n) ELSE Digits(n)

\* fmt "{:03}" of an int: sign-aware zero padding to a total width of 3
FormatInt03(n) ==
  IF n < 0 THEN <<MinusSign>> \o ZeroPad(Digits(-n), ChecksumWidth - 1)
  ELSE ZeroPad(Digits(n), ChecksumWidth)

IsDigit(b) == b >= DigitZero /\ b <= DigitZero + 9

RECURSIVE DigitsValue(_, _)
\* the value of a run of digits, most significant first
DigitsValue(s, acc) ==
  IF s = <<>> THEN acc
  ELSE DigitsValue(Tail(s), acc * 10 + (Head(s) - DigitZero))

\* the number of leading digits of s from index i on
RECURSIVE DigitRun(_, _)
DigitRun(s, i) ==
  IF i <= Len(s) /\ IsDigit(s[i]) THEN 1 + DigitRun(s, i + 1) ELSE 0

\* the least int; the accumulation below runs on negated values, which hold
\* the magnitude of every int
IntMin == -IntMax - 1

RECURSIVE NegAccumulate(_, _)
\* minus the value of a run of digits, or 1 when it is below IntMin
NegAccumulate(s, acc) ==
  IF s = <<>> THEN acc
  ELSE LET d == Head(s) - DigitZero
           lim == IntMin + d
           least == (lim \div 10) + (IF lim % 10 = 0 THEN 0 ELSE 1)
       IN IF acc < least THEN 1
          ELSE NegAccumulate(Tail(s), acc * 10 - d)

\* a conversion that clamps an out-of-range number to the nearest int and
\* reports no error (as strtol does)
FromCharsSaturating(s) ==
  LET neg == Len(s) >= 1 /\ s[1] = MinusSign
      start == IF neg THEN 2 ELSE 1
      n == DigitRun(s, start)
      negmag == NegAccumulate(SubSeq(s, start, start + n - 1), 0)
  IN IF n = 0 THEN [ec |-> "invalid_argument", ptr |-> 0, value |-> 0]
     ELSE IF negmag = 1 \/ (~neg /\ negmag = IntMin)
       THEN [ec |-> "", ptr |-> start + n - 1,
             value |-> IF neg THEN IntMin ELSE IntMax]
     ELSE [ec |-> "", ptr |-> start + n - 1,
           value |-> IF neg THEN negmag ELSE -negmag]

\* std::from_chars(first, last, int&): optional '-', then digits; no '+', no
\* white space.  ptr is the number of bytes consumed.
FromChars(s) ==
  LET neg == Len(s) >= 1 /\ s[1] = MinusSign
      start == IF neg THEN 2 ELSE 1
      n == DigitRun(s, start)
      negmag == NegAccumulate(SubSeq(s, start, start + n - 1), 0)
  IN IF n = 0 THEN [ec |-> "invalid_argument", ptr |-> 0, value |-> 0]
     ELSE IF negmag = 1 \/ (~neg /\ negmag = IntMin)
       THEN [ec |-> "result_out_of_range", ptr |-> start + n - 1, value |-> 0]
     ELSE [ec |-> "", ptr |-> start + n - 1,
           value |-> IF neg THEN negmag ELSE -negmag]

\* std::string_view::find(byte, from): the first index >= from holding b,
\* 0 for npos (indices are 1-based)
Find(s, b, from) ==
  LET hits == {i \in from..Len(s) : s[i] = b}
  IN IF hits = {} THEN 0
     ELSE CHOOSE i \in hits : \A j \in hits : i <= j

----------------------------------------------------------------------------
(* MessageBuilder *)

Ok(m) == [ok |-> TRUE, err |-> "", msg |-> m]
Err(e) == [ok |-> FALSE, err |-> e, msg |-> <<>>]
NotBuilt == [ok |-> FALSE, err |-> "NotBuilt", msg |-> <<>>]

\* fmt::format_to(back_inserter(str), "{}={}\x01", tag, value)
append_tag_str(str, tag, value) ==
  str \o FormatInt(tag) \o <<EqualsSign>> \o value \o <<SOH>>

append_tag_int(str, tag, value) ==
  str \o FormatInt(tag) \o <<EqualsSign>> \o FormatInt(value) \o <<SOH>>

append_checksum(str, checksum) ==
  str \o FormatInt(TagChecksum) \o <<EqualsSign>> \o FormatInt03(checksum)
      \o <<SOH>>

RECURSIVE SumChars(_, _, _)
\* sum += c for every char c of s[lo..hi]; int addition is associative below
\* overflow, so the range is split in halves to keep the evaluation shallow
SumChars(s, lo, hi) ==
  IF lo > hi THEN 0
  ELSE IF lo = hi THEN CharToInt(s[lo])
  ELSE LET mid == (lo + hi) \div 2
       IN SumChars(s, lo, mid) + SumChars(s, mid + 1, hi)

RECURSIVE SumUnsignedChars(_, _, _)
\* the sum of the bytes of s[lo..hi] taken as unsigned char
SumUnsignedChars(s, lo, hi) ==
  IF lo > hi THEN 0
  ELSE ((CharToInt(s[lo]) + 256) % 256) + SumUnsignedChars(s, lo + 1, hi)

\* a checksum over unsigned bytes
BuilderChecksumUnsigned(msg) ==
  SumUnsignedChars(msg, 1, Len(msg)) % kChecksumModulo

\* MessageBuilder::calculate_checksum
BuilderChecksum(msg) == CRem(SumChars(msg, 1, Len(msg)), kChecksumModulo)

FillByte == 88

\* std::string(n, 'X')
Fill(n) == [i \in 1..n |-> FillByte]

\* Field::value.  The builder state holds a value as its bytes followed by a
\* count of trailing 'X' bytes, so that a value of 100 KB is a small state.
FieldValue(f) == IF f.fill = 0 THEN f.value ELSE f.value \o Fill(f.fill)

RECURSIVE AppendFields(_, _)
\* for (const auto& field : fields_) append_tag_str(body, field.tag, field.value)
AppendFields(body, fs) ==
  IF fs = <<>> THEN body
  ELSE AppendFields(append_tag_str(body, Head(fs).tag, FieldValue(Head(fs))),
                    Tail(fs))

\* a body that writes SendingTime before MsgSeqNum
BuildBodyTimeFirst(mt, snd, tgt, seq, tm, fs) ==
  LET b1 == append_tag_str(<<>>, TagMsgType, mt)
      b2 == append_tag_str(b1, TagSenderCompId, snd)
      b3 == append_tag_str(b2, TagTargetCompId, tgt)
      b4 == append_tag_str(b3, TagSendingTime, tm)
      b5 == append_tag_int(b4, TagMsgSeqSum, seq)
  IN AppendFields(b5, fs)

\* the body: tags 35, 49, 56, 34, 52, then fields_ in insertion order
BuildBody(mt, snd, tgt, seq, tm, fs) ==
  LET b1 == append_tag_str(<<>>, TagMsgType, mt)
      b2 == append_tag_str(b1, TagSenderCompId, snd)
      b3 == append_tag_str(b2, TagTargetCompId, tgt)
      b4 == append_tag_int(b3, TagMsgSeqSum, seq)
      b5 == append_tag_str(b4, TagSendingTime, tm)
  IN AppendFields(b5, fs)

\* a body length that also counts the "10=NNN<SOH>" trailer
BodyLengthWithTrailer(body) == Len(body) + 7

\* size_t body_length = body.size()
BodyLengthOf(body) == Len(body)

\* a limit check that also rejects a body of exactly kMaxBodyLength bytes
ExceedsLimitInclusive(body_length) == body_length >= kMaxBodyLength

\* body_length > constraints::kMaxBodyLength
ExceedsLimit(body_length) == body_length > kMaxBodyLength

\* a sequence number check that lets 0 through
SeqNumInvalidStrict(seq) == seq < 0

\* msg_seq_num_ <= 0
SeqNumInvalid(seq) == seq <= 0

Assemble(body) ==
  LET r1 == append_tag_str(<<>>, TagBeginString, begin_string_)
      r2 == append_tag_int(r1, TagBodyLength, BodyLengthOf(body))
      r3 == r2 \o body
  IN append_checksum(r3, BuilderChecksum(r3))

\* a build() that never looks at the MsgType given at construction
BuildResultTypeUnchecked(mt, snd, tgt, seq, tm, fs) ==
  IF snd = <<>> THEN Err("MissingSender")
  ELSE IF tgt = <<>> THEN Err("MissingTarget")
  ELSE IF SeqNumInvalid(seq) THEN Err("InvalidSeqSum")
  ELSE IF tm = <<>> THEN Err("MissingSendingTime")
  ELSE LET body == BuildBody(mt, snd, tgt, seq, tm, fs)
       IN IF ExceedsLimit(BodyLengthOf(body))
            THEN Err("BodyLengthExceeded")
          ELSE Ok(Assemble(body))

\* MessageBuilder::build() const
BuildResult(mt, snd, tgt, seq, tm, fs) ==
  IF mt = <<>> THEN Err("MissingMsgType")
  ELSE IF snd = <<>> THEN Err("MissingSender")
  ELSE IF tgt = <<>> THEN Err("MissingTarget")
  ELSE IF SeqNumInvalid(seq) THEN Err("InvalidSeqSum")
  ELSE IF tm = <<>> THEN Err("MissingSendingTime")
  ELSE LET body == BuildBody(mt, snd, tgt, seq, tm, fs)
       IN IF ExceedsLimit(BodyLengthOf(body))
            THEN Err("BodyLengthExceeded")
          ELSE Ok(Assemble(body))

----------------------------------------------------------------------------
(* FieldView, MessageView, Parser *)

None == [has |-> FALSE, val |-> 0]
Some(v) == [has |-> TRUE, val |-> v]

\* a conversion that keeps the leading number of "5x" (as atoi would)
to_int_prefix(value) ==
  LET fc == FromChars(value)
  IN IF fc.ec # "" THEN None ELSE Some(fc.value)

\* FieldView::to_int
to_int(value) ==
  LET fc == FromChars(value)
  IN IF fc.ec # "" THEN None
     ELSE IF fc.ptr # Len(value) THEN None
     ELSE Some(fc.value)

value_or(opt, d) == IF opt.has THEN opt.val ELSE d

\* the sentinel {FieldView{-1, {}}, {}}
Sentinel == [tag |-> SentinelTag, value |-> <<>>, rest |-> <<>>]

\* a tokenizer that takes the leading number of the tag text and does not
\* look at what follows it
parse_field_partial_tag(buf) ==
  LET eq_pos == Find(buf, EqualsSign, 1)
  IN IF eq_pos = 0 THEN Sentinel
     ELSE LET fc == FromChars(SubSeq(buf, 1, eq_pos - 1))
          IN IF fc.ec # "" THEN Sentinel
             ELSE LET soh_pos == Find(buf, SOH, eq_pos + 1)
                  IN IF soh_pos = 0 THEN Sentinel
                     ELSE [tag |-> fc.value,
                           value |-> SubSeq(buf, eq_pos + 1, soh_pos - 1),
                           rest |-> SubSeq(buf, soh_pos + 1, Len(buf))]

\* a tokenizer whose remaining buffer starts at the SOH instead of after it
parse_field_keeps_soh(buf) ==
  LET eq_pos == Find(buf, EqualsSign, 1)
  IN IF eq_pos = 0 THEN Sentinel
     ELSE LET fc == FromChars(SubSeq(buf, 1, eq_pos - 1))
          IN IF fc.ec # "" \/ fc.ptr # eq_pos - 1 THEN Sentinel
             ELSE LET soh_pos == Find(buf, SOH, eq_pos + 1)
                  IN IF soh_pos = 0 THEN Sentinel
                     ELSE [tag |-> fc.value,
                           value |-> SubSeq(buf, eq_pos + 1, soh_pos - 1),
                           rest |-> SubSeq(buf, soh_pos, Len(buf))]

\* Parser::parse_field: the field and the remaining buffer
parse_field(buf) ==
  LET eq_pos == Find(buf, EqualsSign, 1)
  IN IF eq_pos = 0 THEN Sentinel
     ELSE LET fc == FromChars(SubSeq(buf, 1, eq_pos - 1))
          IN IF fc.ec # "" \/ fc.ptr # eq_pos - 1 THEN Sentinel
             ELSE LET soh_pos == Find(buf, SOH, eq_pos + 1)
                  IN IF soh_pos = 0 THEN Sentinel
                     ELSE [tag |-> fc.value,
                           value |-> SubSeq(buf, eq_pos + 1, soh_pos - 1),
                           rest |-> SubSeq(buf, soh_pos + 1, Len(buf))]

\* Parser::calculate_checksum
ParserChecksum(buf) == CRem(SumChars(buf, 1, Len(buf)), 256)

EmptyView == [begin_string |-> <<>>, body_length |-> 0, msg_type |-> <<>>,
              fields |-> <<>>, checksum |-> 0]
ParseOk(m) == [ok |-> TRUE, err |-> "", msg |-> m]
ParseErr(e) == [ok |-> FALSE, err |-> e, msg |-> EmptyView]
NotParsed == [ok |-> FALSE, err |-> "NotParsed", msg |-> EmptyView]

\* remaining.data() - buffer.data(): remaining is always a suffix of buffer
ChecksumOffset(buf, remaining) == Len(buf) - Len(remaining)

\* msg.checksum = field.to_int().value_or(0)
DeclaredChecksum(field) == value_or(to_int(field.value), 0)

\* a comparison that lets a Checksum value through when it is no number
ChecksumMismatchLenient(checksum, declared, field) ==
  to_int(field.value).has /\ checksum # declared

\* if (checksum != msg.checksum)
ChecksumMismatch(checksum, declared, field) == checksum # declared

\* a loop exit that returns what was collected so far
LoopFellThroughAccepting(msg) == ParseOk(msg)

\* after the loop: return Err(FixError::from(FixErrc::MissingChecksum))
LoopFellThrough(msg) == ParseErr("MissingChecksum")

RECURSIVE ParseLoopStrict(_, _, _)
\* a loop that refuses bytes after the Checksum field
ParseLoopStrict(buf, remaining, msg) ==
  IF remaining = <<>> THEN LoopFellThrough(msg)
  ELSE LET field == parse_field(remaining)
       IN IF field.tag = SentinelTag THEN LoopFellThrough(msg)
          ELSE IF field.tag = TagChecksum
            THEN LET declared == DeclaredChecksum(field)
                     checksum == ParserChecksum(
                       SubSeq(buf, 1, ChecksumOffset(buf, remaining)))
                 IN IF ChecksumMismatch(checksum, declared, field)
                      THEN ParseErr("InvalidCheckSum")
                    ELSE IF field.rest # <<>> THEN ParseErr("InvalidFormat")
                    ELSE ParseOk([msg EXCEPT !.checksum = declared])
          ELSE ParseLoopStrict(buf, field.rest,
                 [msg EXCEPT !.fields =
                    Append(@, [tag |-> field.tag, value |-> field.value])])

RECURSIVE ParseLoop(_, _, _)
\* while (!remaining.empty()) { ... } return Err(MissingChecksum)
ParseLoop(buf, remaining, msg) ==
  IF remaining = <<>> THEN LoopFellThrough(msg)
  ELSE LET field == parse_field(remaining)
       IN IF field.tag = SentinelTag THEN LoopFellThrough(msg)
          ELSE IF field.tag = TagChecksum
            THEN LET declared == DeclaredChecksum(field)
                     checksum == ParserChecksum(
                       SubSeq(buf, 1, ChecksumOffset(buf, remaining)))
                 IN IF ChecksumMismatch(checksum, declared, field)
                      THEN ParseErr("InvalidCheckSum")
                    ELSE ParseOk([msg EXCEPT !.checksum = declared])
          ELSE ParseLoop(buf, field.rest,
                 [msg EXCEPT !.fields =
                    Append(@, [tag |-> field.tag, value |-> field.value])])

\* Parser::parse
Parse(buf) ==
  IF buf = <<>> THEN ParseErr("EmptyMessage")
  ELSE LET f8 == parse_field(buf)
       IN IF f8.tag # TagBeginString THEN ParseErr("MissingBeginString")
          ELSE LET f9 == parse_field(f8.rest)
               IN IF f9.tag # TagBodyLength THEN ParseErr("MissingBodyLength")
                  ELSE LET body_length_opt == to_int(f9.value)
                       IN IF ~body_length_opt.has THEN ParseErr("InvalidFormat")
                          ELSE LET f35 == parse_field(f9.rest)
                               IN IF f35.tag # TagMsgType
                                    THEN ParseErr("InvalidFormat")
                                  ELSE ParseLoop(buf, f35.rest,
                                         [begin_string |-> f8.value,
                                          body_length |-> body_length_opt.val,
                                          msg_type |-> f35.value,
                                          fields |-> <<>>,
                                          checksum |-> 0])

\* MessageView::find_field: the first field with the tag, or nothing
find_field(msg, tag) ==
  LET hits == {i \in 1..Len(msg.fields) : msg.fields[i].tag = tag}
  IN IF hits = {} THEN [has |-> FALSE, value |-> <<>>]
     ELSE [has |-> TRUE,
           value |-> msg.fields[CHOOSE i \in hits : \A j \in hits : i <= j].value]

----------------------------------------------------------------------------
(* Inputs of the builder *)

MaxFields == 2
HighRunLen == 24

\* a value of bytes 0x80 (the lead bytes of multi-byte text)
HighRun == [i \in 1..HighRunLen |-> 128]

MsgTypes == {<<>>, <<68>>}
SenderIds == {<<>>, <<83>>}
TargetIds == {<<>>, <<84>>}
SeqNums == {-1, 0, 1, 42}
SendingTimes == {<<>>, <<85>>}
FieldTags == {TagChecksum, TagClOrdID}
FieldValues == {<<65>>, <<65, SOH>>, HighRun}
FieldInts == {1}

----------------------------------------------------------------------------
(* The builder, its build() and a parse of what it built *)

InitBuilder ==
  /\ msg_type_ \in MsgTypes      \* explicit MessageBuilder(msg_type)
  /\ sender_comp_id_ = <<>>
  /\ target_comp_id_ = <<>>
  /\ msg_seq_num_ = 0
  /\ sending_time_ = <<>>
  /\ fields_ = <<>>
  /\ built = NotBuilt
  /\ prev_built = NotBuilt

InitWire ==
  /\ buffer = <<>>
  /\ parsed = NotParsed
  /\ chunks = 0
  /\ orig = <<>>
  /\ tamperPos = 0

\* no function has been called on a span yet
NotTokenized == [called |-> FALSE, out |-> Sentinel]
NotConverted == [called |-> FALSE, out |-> None]
NotSummed == [called |-> FALSE, parser |-> 0, builder |-> 0]

IdlePure ==
  /\ span = <<>>
  /\ tokenized = NotTokenized
  /\ converted = NotConverted
  /\ summed = NotSummed
  /\ spanPieces = 0

\* no datagram has been received yet
NoData == [head |-> <<>>, pad |-> 0, seed |-> 0, at |-> -1, byte |-> 0]
NoValue == [empty |-> TRUE]
NotDecoded == [ok |-> FALSE, err |-> "NotDecoded", kind |-> "", value |-> NoValue]

IdleTaifex ==
  /\ data = NoData
  /\ decoded = NotDecoded

\* Queue = SPSCQueue<int, 8>
Capacity == 8

\* the two threads before they are started
ProducerAt(pc, i, cur_tail, nxt_tail) ==
  [pc |-> pc, i |-> i, cur_tail |-> cur_tail, nxt_tail |-> nxt_tail]
ConsumerAt(pc, h, cur_head, value) ==
  [pc |-> pc, h |-> h, cur_head |-> cur_head, value |-> value]

\* a queue as its constructor leaves it, every slot holding g, and two threads
\* that have not run yet
NewQueue(g) ==
  /\ head_ = 0
  /\ tail_ = 0
  /\ buffer_ = [slot \in 0..(Capacity - 1) |-> g]
  /\ done = FALSE
  /\ consumed = <<>>
  /\ accepted = <<>>
  /\ producer = ProducerAt("load_tail", 0, 0, 0)
  /\ consumer = ConsumerAt("load_done", 0, 0, 0)

IdleQueue == NewQueue(0)

Init == InitBuilder /\ InitWire /\ IdlePure /\ IdleTaifex /\ IdleQueue

\* a mutation of the builder: the results held by the caller are no longer
\* results of the builder as it now is
Stale == built' = NotBuilt /\ prev_built' = NotBuilt
         /\ buffer' = <<>> /\ parsed' = NotParsed
         /\ UNCHANGED <<chunks, orig, tamperPos>>
         /\ UNCHANGED <<pure, taifex, queue>>

set_sender(sender) ==
  /\ sender_comp_id_' = sender
  /\ UNCHANGED <<msg_type_, target_comp_id_, msg_seq_num_, sending_time_, fields_>>
  /\ Stale

set_target(target) ==
  /\ target_comp_id_' = target
  /\ UNCHANGED <<msg_type_, sender_comp_id_, msg_seq_num_, sending_time_, fields_>>
  /\ Stale

set_msg_seq_num(seq_num) ==
  /\ msg_seq_num_' = seq_num
  /\ UNCHANGED <<msg_type_, sender_comp_id_, target_comp_id_, sending_time_, fields_>>
  /\ Stale

set_sending_time(time) ==
  /\ sending_time_' = time
  /\ UNCHANGED <<msg_type_, sender_comp_id_, target_comp_id_, msg_seq_num_, fields_>>
  /\ Stale

\* fields_.push_back({tag, std::string(value)})
PushField(fs, tag, value) ==
  Append(fs, [tag |-> tag, value |-> value, fill |-> 0])

add_field(tag, value) ==
  /\ Len(fields_) < MaxFields
  /\ fields_' = PushField(fields_, tag, value)
  /\ UNCHANGED <<msg_type_, sender_comp_id_, target_comp_id_, msg_seq_num_, sending_time_>>
  /\ Stale

\* add_field(int tag, int value): fields_.push_back({tag, std::to_string(value)})
add_field_int(tag, value) ==
  /\ Len(fields_) < MaxFields
  /\ fields_' = PushField(fields_, tag, FormatInt(value))
  /\ UNCHANGED <<msg_type_, sender_comp_id_, target_comp_id_, msg_seq_num_, sending_time_>>
  /\ Stale

\* a build() that moves the fields out of the builder
FieldsConsumedByBuild(fs) == <<>>

\* what build() leaves of fields_: it is const
FieldsAfterBuild(fs) == fs

\* auto result1 = builder.build(); auto result2 = builder.build();
Build ==
  /\ prev_built' = built
  /\ built' = BuildResult(msg_type_, sender_comp_id_, target_comp_id_,
                          msg_seq_num_, sending_time_, fields_)
  /\ fields_' = FieldsAfterBuild(fields_)
  /\ UNCHANGED <<msg_type_, sender_comp_id_, target_comp_id_, msg_seq_num_, sending_time_>>
  /\ UNCHANGED wire
  /\ UNCHANGED <<pure, taifex, queue>>

\* auto parse_result = Parser::parse(*build_result);
ParseBuilt ==
  /\ built.ok
  /\ buffer' = built.msg
  /\ parsed' = Parse(built.msg)
  /\ UNCHANGED <<builder, built, prev_built, chunks, orig, tamperPos>>
  /\ UNCHANGED <<pure, taifex, queue>>

Next ==
  \/ \E v \in SenderIds : set_sender(v)
  \/ \E v \in TargetIds : set_target(v)
  \/ \E n \in SeqNums : set_msg_seq_num(n)
  \/ \E v \in SendingTimes : set_sending_time(v)
  \/ \E t \in FieldTags, v \in FieldValues : add_field(t, v)
  \/ \E t \in FieldTags, n \in FieldInts : add_field_int(t, n)
  \/ Build
  \/ ParseBuilt

Spec == Init /\ [][Next]_vars

----------------------------------------------------------------------------
(* The builder at the body length limit: one large add_field value *)

LimitSlack == 1
TagLarge == 5000
LimitSenders == {<<>>, <<83>>, <<83, 83>>}
LimitSeqNums == {0, 1}

\* the body bytes around a value: 35=D 49=S 56=T 34=1 52=U 5000=<value>
MinOverhead ==
  Len(BuildBody(<<68>>, <<83>>, <<84>>, 1, <<85>>,
                <<[tag |-> TagLarge, value |-> <<>>, fill |-> 0]>>))

\* value lengths that put the body just below, at and above kMaxBodyLength,
\* and a value that is longer than kMaxBodyLength on its own
LargeLens ==
  ((kMaxBodyLength - MinOverhead - 1 - LimitSlack)
     ..(kMaxBodyLength - MinOverhead + LimitSlack))
  \cup {kMaxBodyLength + 1}

InitLimit ==
  /\ msg_type_ = <<68>>
  /\ sender_comp_id_ = <<>>
  /\ target_comp_id_ = <<>>
  /\ msg_seq_num_ = 0
  /\ sending_time_ = <<>>
  /\ fields_ = <<>>
  /\ built = NotBuilt
  /\ prev_built = NotBuilt
  /\ InitWire
  /\ IdlePure
  /\ IdleTaifex
  /\ IdleQueue

\* std::string large_value(n, 'X'); builder.add_field(5000, large_value)
add_large_field(n) ==
  /\ fields_ = <<>>
  /\ fields_' = Append(fields_, [tag |-> TagLarge, value |-> <<>>, fill |-> n])
  /\ UNCHANGED <<msg_type_, sender_comp_id_, target_comp_id_, msg_seq_num_, sending_time_>>
  /\ Stale

\* what the caller keeps of a result: is_ok() and the error kind
StatusOf(r) == [r EXCEPT !.msg = <<>>]

\* auto result = builder.build(); result.is_err(); result.error()
BuildStatus ==
  /\ prev_built' = built
  /\ built' = StatusOf(BuildResult(msg_type_, sender_comp_id_, target_comp_id_,
                                   msg_seq_num_, sending_time_, fields_))
  /\ fields_' = FieldsAfterBuild(fields_)
  /\ UNCHANGED <<msg_type_, sender_comp_id_, target_comp_id_, msg_seq_num_, sending_time_>>
  /\ UNCHANGED wire
  /\ UNCHANGED <<pure, taifex, queue>>

NextLimit ==
  \/ \E v \in LimitSenders : set_sender(v)
  \/ \E v \in TargetIds : set_target(v)
  \/ \E n \in LimitSeqNums : set_msg_seq_num(n)
  \/ \E v \in SendingTimes : set_sending_time(v)
  \/ \E n \in LargeLens : add_large_field(n)
  \/ BuildStatus

SpecLimit == InitLimit /\ [][NextLimit]_vars

----------------------------------------------------------------------------
(* The parser on buffers assembled from fragments, and on accepted buffers
   with one byte changed *)

MaxChunks == 5
HeaderSlots == 3
HighBodyLen == 8

\* the fragments offered at each place of the buffer: well-formed fields,
\* fields with the wrong tag, and malformed ones
FirstChunks ==
  { <<56, EqualsSign, 70, SOH>>,        \* 8=F<SOH>
    <<56, EqualsSign, SOH>>,            \* 8=<SOH>
    <<56, EqualsSign, 70>>,             \* 8=F      (no SOH)
    <<57, EqualsSign, 53, SOH>>,        \* 9=5<SOH>
    <<88, EqualsSign, 49, SOH>> }       \* X=1<SOH>
SecondChunks ==
  { <<57, EqualsSign, 53, SOH>>,        \* 9=5<SOH>
    <<57, EqualsSign, MinusSign, 51, SOH>>,  \* 9=-3<SOH>
    <<57, EqualsSign, DigitZero, SOH>>, \* 9=0<SOH>
    <<57, EqualsSign, SOH>>,            \* 9=<SOH>
    <<57, EqualsSign, 53, 120, SOH>>,   \* 9=5x<SOH>
    <<51, 53, EqualsSign, 68, SOH>>,    \* 35=D<SOH>
    <<88>> }                            \* X
ThirdChunks ==
  { <<51, 53, EqualsSign, 68, SOH>>,    \* 35=D<SOH>
    <<52, 57, EqualsSign, 83, SOH>>,    \* 49=S<SOH>
    <<88>> }                            \* X
BodyChunks ==
  { <<52, 57, EqualsSign, 83, SOH>>,    \* 49=S<SOH>
    FormatInt(TagClOrdID) \o <<EqualsSign>> \o [i \in 1..HighBodyLen |-> 128]
      \o <<SOH>>,                       \* 11=<bytes 0x80><SOH>
    <<88>> }                            \* X

ChunksAt(k) ==
  IF k = 1 THEN FirstChunks
  ELSE IF k = 2 THEN SecondChunks
  ELSE IF k = 3 THEN ThirdChunks
  ELSE BodyChunks

\* the Checksum fields a sender may append to a prefix
ChecksumKinds == {"char", "unsigned", "wrong", "text"}

RECURSIVE SumUnsigned(_)
\* the sum of the unsigned values of the bytes of s
SumUnsigned(s) == IF s = <<>> THEN 0 ELSE Head(s) + SumUnsigned(Tail(s))

ChecksumText(prefix, kind) ==
  IF kind = "char" THEN FormatInt03(BuilderChecksum(prefix))
  ELSE IF kind = "unsigned" THEN FormatInt03(SumUnsigned(prefix) % 256)
  ELSE IF kind = "wrong" THEN FormatInt03((SumUnsigned(prefix) + 1) % 256)
  ELSE <<65>>

\* the byte b for which prefix \o "11=" \o <<b>> \o <<SOH>> sums to 0 mod 256
BalanceByte(prefix) ==
  (-(SumUnsigned(prefix \o FormatInt(TagClOrdID) \o <<EqualsSign, SOH>>))) % 256

TamperBytes == {SOH, EqualsSign, 57, 65}

InitParser ==
  /\ msg_type_ = <<>>
  /\ sender_comp_id_ = <<>>
  /\ target_comp_id_ = <<>>
  /\ msg_seq_num_ = 0
  /\ sending_time_ = <<>>
  /\ fields_ = <<>>
  /\ built = NotBuilt
  /\ prev_built = NotBuilt
  /\ InitWire
  /\ IdlePure
  /\ IdleTaifex
  /\ IdleQueue

Extend(bytes) ==
  /\ tamperPos = 0
  /\ chunks < MaxChunks
  /\ buffer' = buffer \o bytes
  /\ chunks' = chunks + 1
  /\ parsed' = NotParsed
  /\ UNCHANGED <<builder, built, prev_built, orig, tamperPos>>
  /\ UNCHANGED <<pure, taifex, queue>>

WireAppend(c) == Extend(c)

WireChecksum(kind) ==
  /\ chunks >= HeaderSlots
  /\ Extend(FormatInt(TagChecksum) \o <<EqualsSign>>
            \o ChecksumText(buffer, kind) \o <<SOH>>)

WireBalance ==
  /\ chunks >= HeaderSlots
  /\ BalanceByte(buffer) # SOH
  /\ Extend(FormatInt(TagClOrdID) \o <<EqualsSign, BalanceByte(buffer), SOH>>)

\* auto result = Parser::parse(buffer)
WireParse ==
  /\ parsed = NotParsed
  /\ parsed' = Parse(buffer)
  /\ UNCHANGED <<builder, built, prev_built, buffer, chunks, orig, tamperPos>>
  /\ UNCHANGED <<pure, taifex, queue>>

RECURSIVE FirstChecksumFrom(_, _)
\* the offset of the first field with tag 10 among the fields of `remaining`,
\* -1 when the fields end before one
FirstChecksumFrom(buf, remaining) ==
  IF remaining = <<>> THEN -1
  ELSE LET field == parse_field(remaining)
       IN IF field.tag = SentinelTag THEN -1
          ELSE IF field.tag = TagChecksum THEN Len(buf) - Len(remaining)
          ELSE FirstChecksumFrom(buf, field.rest)

\* the number of bytes before the Checksum field of a buffer whose three
\* header fields tokenize
ChecksumFieldOffset(buf) ==
  FirstChecksumFrom(buf,
    parse_field(parse_field(parse_field(buf).rest).rest).rest)

\* one byte strictly before the Checksum field of an accepted buffer is
\* changed to a different value
Tamper(i, b) ==
  /\ parsed.ok
  /\ tamperPos = 0
  /\ i <= ChecksumFieldOffset(buffer)
  /\ buffer[i] # b
  /\ orig' = buffer
  /\ buffer' = [buffer EXCEPT ![i] = b]
  /\ tamperPos' = i
  /\ parsed' = NotParsed
  /\ UNCHANGED <<builder, built, prev_built, chunks>>
  /\ UNCHANGED <<pure, taifex, queue>>

NextWire ==
  \/ \E c \in ChunksAt(chunks + 1) : WireAppend(c)
  \/ \E kind \in ChecksumKinds : WireChecksum(kind)
  \/ WireBalance
  \/ WireParse
  \/ \E i \in 1..Len(buffer), b \in TamperBytes : Tamper(i, b)

SpecWire == InitParser /\ [][NextWire]_vars

----------------------------------------------------------------------------
(* The tokenizer, the integer conversion and the checksum functions, each
   called on a span assembled from fragments *)

MaxSpanPieces == 5

\* texts at the place of a tag or of an integer value
TagTexts ==
  { <<>>,
    <<49, 50>>,                                   \* 12
    <<MinusSign, 49>>,                            \* -1
    <<43, 53>>,                                   \* +5
    <<32, 49, 50>>,                               \* " 12"
    <<49, 50, 97>>,                               \* 12a
    <<MinusSign>>,                                \* -
    <<50, 49, 52, 55, 52, 56, 51, 54, 52, 55>>,   \* 2147483647
    <<50, 49, 52, 55, 52, 56, 51, 54, 52, 56>>,   \* 2147483648
    <<MinusSign, 50, 49, 52, 55, 52, 56, 51, 54, 52, 56>>,  \* -2147483648
    <<MinusSign, 50, 49, 52, 55, 52, 56, 51, 54, 52, 57>> } \* -2147483649
Separators == { <<EqualsSign>>, <<SOH>> }
ValueTexts == { <<>>, <<97>>, <<EqualsSign, 98>>, <<128>> }
Terminators == { <<SOH>>, <<97>> }
RestTexts == { <<>>, <<120>>, <<SOH>>, <<57, EqualsSign, 49, SOH>> }

SpanPiecesAt(k) ==
  IF k = 1 THEN TagTexts
  ELSE IF k = 2 THEN Separators
  ELSE IF k = 3 THEN ValueTexts
  ELSE IF k = 4 THEN Terminators
  ELSE RestTexts

InitPure ==
  /\ msg_type_ = <<>>
  /\ sender_comp_id_ = <<>>
  /\ target_comp_id_ = <<>>
  /\ msg_seq_num_ = 0
  /\ sending_time_ = <<>>
  /\ fields_ = <<>>
  /\ built = NotBuilt
  /\ prev_built = NotBuilt
  /\ InitWire
  /\ IdlePure
  /\ IdleTaifex
  /\ IdleQueue

\* the caller's span grows by one fragment; earlier results were of the
\* shorter span
SpanAppend(piece) ==
  /\ spanPieces < MaxSpanPieces
  /\ span' = span \o piece
  /\ spanPieces' = spanPieces + 1
  /\ tokenized' = NotTokenized
  /\ converted' = NotConverted
  /\ summed' = NotSummed
  /\ UNCHANGED <<builder, built, prev_built, wire, taifex, queue>>

\* auto [field, rest] = parse_field(span)
Tokenize ==
  /\ ~tokenized.called
  /\ tokenized' = [called |-> TRUE, out |-> parse_field(span)]
  /\ UNCHANGED <<span, spanPieces, converted, summed>>
  /\ UNCHANGED <<builder, built, prev_built, wire, taifex, queue>>

\* FieldView{0, span}.to_int()
Convert ==
  /\ ~converted.called
  /\ converted' = [called |-> TRUE, out |-> to_int(span)]
  /\ UNCHANGED <<span, spanPieces, tokenized, summed>>
  /\ UNCHANGED <<builder, built, prev_built, wire, taifex, queue>>

\* Parser::calculate_checksum(span), MessageBuilder::calculate_checksum(span)
Checksum ==
  /\ ~summed.called
  /\ summed' = [called |-> TRUE, parser |-> ParserChecksum(span),
                builder |-> BuilderChecksum(span)]
  /\ UNCHANGED <<span, spanPieces, tokenized, converted>>
  /\ UNCHANGED <<builder, built, prev_built, wire, taifex, queue>>

NextPure ==
  \/ \E piece \in SpanPiecesAt(spanPieces + 1) : SpanAppend(piece)
  \/ Tokenize
  \/ Convert
  \/ Checksum

SpecPure == InitPure /\ [][NextPure]_vars

----------------------------------------------------------------------------
(* The TAIFEX binary decoders: net/taifex/parser.cpp, wire_format.hpp.
   A datagram is held as its leading bytes and a count of zero bytes that
   follow them.  A 16-bit field is a number; a 32- or 64-bit unsigned field
   is the sequence of its base-256 digits, most significant first. *)

PacketHeaderSize == 16
R06SnapshotWireSize == 163
R02TradeWireSize == 45
EscCode == 27
MaxMsgCount == 100
KindR == 82
Type6 == 54
Type2 == 50
ProdIdLen == 20
LevelCount == 5
R06LevelSize == 12

\* data.size()
Size(d) == Len(d.head) + d.pad

\* the byte at offset off of the buffer: the byte written at d.at, else a byte
\* of the leading bytes, else a filler byte that changes with the offset
At(d, off) ==
  IF off = d.at THEN d.byte
  ELSE IF off < Len(d.head) THEN d.head[off + 1]
  ELSE ((off + 1) * d.seed) % 256

\* a uint16_t member read from the packed struct on the little-endian host
HostU16(d, off) == At(d, off) + 256 * At(d, off + 1)

\* ntohs: the two bytes swapped
ntohs(x) == (x % 256) * 256 + (x \div 256)

\* a 32-bit member read on the little-endian host: digits most significant
\* first
HostU32(d, off) == <<At(d, off + 3), At(d, off + 2), At(d, off + 1), At(d, off)>>

\* ntohl as it is on a big-endian host: the bytes are left as they are
ntohl_big_endian_host(w) == w

\* ntohl: the four bytes reversed
ntohl(w) == <<w[4], w[3], w[2], w[1]>>

\* a 64-bit member read on the little-endian host
HostU64(d, off) == [i \in 1..8 |-> At(d, off + 8 - i)]

\* be64toh: the eight bytes reversed
be64toh(w) == [i \in 1..8 |-> w[9 - i]]

\* static_cast<int32_t>(u): the two's-complement value of a 32-bit word
ToInt32(w) ==
  IF w[1] < 128
    THEN ((w[1] * 256 + w[2]) * 256 + w[3]) * 256 + w[4]
  ELSE -((((255 - w[1]) * 256 + (255 - w[2])) * 256 + (255 - w[3])) * 256
         + (255 - w[4])) - 1

\* reading an int32_t member and handing it to ntohl as uint32_t
NetInt32(d, off) == ToInt32(ntohl(HostU32(d, off)))

TaifexOk(kind, v) == [ok |-> TRUE, err |-> "", kind |-> kind, value |-> v]
TaifexErr(kind, e) == [ok |-> FALSE, err |-> e, kind |-> kind, value |-> NoValue]

\* a size check that lets a buffer one byte short through
TooSmallOffByOne(size, need) == size < need - 1

\* data.size() < sizeof(Wire)
TooSmall(size, need) == size < need

\* a header check that looks at packet_length before msg_count
parse_packet_header_length_first(d) ==
  LET kind == "packet_header"
  IN IF TooSmall(Size(d), PacketHeaderSize) THEN TaifexErr(kind, "buffer_too_small")
     ELSE IF At(d, 0) # EscCode THEN TaifexErr(kind, "invalid_esc_code")
     ELSE LET packet_length == ntohs(HostU16(d, 2))
              msg_count == ntohs(HostU16(d, 4))
          IN IF packet_length < PacketHeaderSize \/ packet_length > Size(d)
               THEN TaifexErr(kind, "invalid_packet_length")
             ELSE IF msg_count = 0 \/ msg_count > MaxMsgCount
               THEN TaifexErr(kind, "invalid_msg_count")
             ELSE TaifexOk(kind,
                    [esc_code |-> At(d, 0), packet_version |-> At(d, 1),
                     packet_length |-> packet_length, msg_count |-> msg_count,
                     pkt_seq_num |-> ntohl(HostU32(d, 6)),
                     channel_id |-> ntohs(HostU16(d, 10)),
                     send_time |-> ntohl(HostU32(d, 12))])

\* parse_packet_header
parse_packet_header(d) ==
  LET kind == "packet_header"
  IN IF TooSmall(Size(d), PacketHeaderSize) THEN TaifexErr(kind, "buffer_too_small")
     ELSE IF At(d, 0) # EscCode THEN TaifexErr(kind, "invalid_esc_code")
     ELSE LET parsed_hdr ==
                [esc_code |-> At(d, 0), packet_version |-> At(d, 1),
                 packet_length |-> ntohs(HostU16(d, 2)),
                 msg_count |-> ntohs(HostU16(d, 4)),
                 pkt_seq_num |-> ntohl(HostU32(d, 6)),
                 channel_id |-> ntohs(HostU16(d, 10)),
                 send_time |-> ntohl(HostU32(d, 12))]
          IN IF parsed_hdr.msg_count = 0 \/ parsed_hdr.msg_count > MaxMsgCount
               THEN TaifexErr(kind, "invalid_msg_count")
             ELSE IF parsed_hdr.packet_length < PacketHeaderSize
                     \/ parsed_hdr.packet_length > Size(d)
               THEN TaifexErr(kind, "invalid_packet_length")
             ELSE TaifexOk(kind, parsed_hdr)

\* convert_level
convert_level(d, off) ==
  [price |-> NetInt32(d, off),
   quantity |-> ntohl(HostU32(d, off + 4)),
   order_count |-> ntohl(HostU32(d, off + 8))]

\* a level of zeros
NoLevel == [price |-> 0, quantity |-> <<0, 0, 0, 0>>, order_count |-> <<0, 0, 0, 0>>]

\* a conversion that stops at the level counts of the record
snapshot_fields_counted(d) ==
  [prod_id |-> [i \in 1..ProdIdLen |-> At(d, 3 + i)],
   prod_status |-> At(d, 24),
   update_time |-> ntohl(HostU32(d, 25)),
   bid_level_cnt |-> At(d, 29),
   bid_levels |-> [i \in 1..LevelCount |->
                     IF i <= At(d, 29)
                       THEN convert_level(d, 30 + (i - 1) * R06LevelSize)
                     ELSE NoLevel],
   ask_level_cnt |-> At(d, 90),
   ask_levels |-> [i \in 1..LevelCount |->
                     IF i <= At(d, 90)
                       THEN convert_level(d, 91 + (i - 1) * R06LevelSize)
                     ELSE NoLevel],
   last_price |-> NetInt32(d, 151),
   last_qty |-> ntohl(HostU32(d, 155)),
   total_volume |-> ntohl(HostU32(d, 159))]

\* the members of R06SnapshotParsed, filled from the record
snapshot_fields(d) ==
  [prod_id |-> [i \in 1..ProdIdLen |-> At(d, 3 + i)],
   prod_status |-> At(d, 24),
   update_time |-> ntohl(HostU32(d, 25)),
   bid_level_cnt |-> At(d, 29),
   bid_levels |-> [i \in 1..LevelCount |->
                     convert_level(d, 30 + (i - 1) * R06LevelSize)],
   ask_level_cnt |-> At(d, 90),
   ask_levels |-> [i \in 1..LevelCount |->
                     convert_level(d, 91 + (i - 1) * R06LevelSize)],
   last_price |-> NetInt32(d, 151),
   last_qty |-> ntohl(HostU32(d, 155)),
   total_volume |-> ntohl(HostU32(d, 159))]

\* a snapshot decoder that compares msg_length with the size of the buffer
\* it was given instead of the size of the record
parse_r06_snapshot_length_of_buffer(d) ==
  LET kind == "r06_snapshot"
  IN IF TooSmall(Size(d), R06SnapshotWireSize) THEN TaifexErr(kind, "buffer_too_small")
     ELSE IF At(d, 2) # KindR THEN TaifexErr(kind, "invalid_msg_kind")
     ELSE IF At(d, 3) # Type6 THEN TaifexErr(kind, "invalid_msg_type")
     ELSE IF ntohs(HostU16(d, 0)) # Size(d)
       THEN TaifexErr(kind, "invalid_msg_length")
     ELSE TaifexOk(kind, snapshot_fields(d))

\* parse_r06_snapshot
parse_r06_snapshot(d) ==
  LET kind == "r06_snapshot"
  IN IF TooSmall(Size(d), R06SnapshotWireSize) THEN TaifexErr(kind, "buffer_too_small")
     ELSE IF At(d, 2) # KindR THEN TaifexErr(kind, "invalid_msg_kind")
     ELSE IF At(d, 3) # Type6 THEN TaifexErr(kind, "invalid_msg_type")
     ELSE IF ntohs(HostU16(d, 0)) # R06SnapshotWireSize
       THEN TaifexErr(kind, "invalid_msg_length")
     ELSE TaifexOk(kind, snapshot_fields(d))

\* a trade decoder that reports a wrong msg_kind as such
parse_r02_trade_kind_reported(d) ==
  LET kind == "r02_trade"
  IN IF TooSmall(Size(d), R02TradeWireSize) THEN TaifexErr(kind, "buffer_too_small")
     ELSE IF At(d, 2) # KindR THEN TaifexErr(kind, "invalid_msg_kind")
     ELSE IF At(d, 3) # Type2 THEN TaifexErr(kind, "invalid_msg_type")
     ELSE TaifexOk(kind,
            [prod_id |-> [i \in 1..ProdIdLen |-> At(d, 3 + i)],
             match_price |-> NetInt32(d, 24),
             match_qty |-> ntohl(HostU32(d, 28)),
             total_volume |-> ntohl(HostU32(d, 32)),
             match_time |-> be64toh(HostU64(d, 36)),
             side |-> At(d, 44)])

\* parse_r02_trade
parse_r02_trade(d) ==
  LET kind == "r02_trade"
  IN IF TooSmall(Size(d), R02TradeWireSize) THEN TaifexErr(kind, "buffer_too_small")
     ELSE IF At(d, 2) # KindR \/ At(d, 3) # Type2
       THEN TaifexErr(kind, "invalid_msg_type")
     ELSE TaifexOk(kind,
            [prod_id |-> [i \in 1..ProdIdLen |-> At(d, 3 + i)],
             match_price |-> NetInt32(d, 24),
             match_qty |-> ntohl(HostU32(d, 28)),
             total_volume |-> ntohl(HostU32(d, 32)),
             match_time |-> be64toh(HostU64(d, 36)),
             side |-> At(d, 44)])

SizeSlack == 1

\* leading bytes of a packet: esc_code, packet_version, packet_length,
\* msg_count
PacketHeads ==
  { <<esc, 1, pl[1], pl[2], mc[1], mc[2]>> :
      esc \in {EscCode, 255},
      pl \in {<<0, 15>>, <<0, 16>>, <<0, 17>>, <<1, 0>>},
      mc \in {<<0, 0>>, <<0, 1>>, <<0, 100>>, <<0, 101>>, <<1, 0>>} }

\* leading bytes of a record: msg_length, msg_kind, msg_type
RecordHeads ==
  { <<0, len, k, t>> :
      len \in {R06SnapshotWireSize, R02TradeWireSize, 162},
      k \in {KindR, 88}, t \in {Type6, Type2} }

\* buffer sizes around the three record sizes, and the empty buffer
DataSizes ==
  {0} \cup UNION { (n - 1 - SizeSlack)..(n + SizeSlack) :
                     n \in {PacketHeaderSize, R02TradeWireSize, R06SnapshotWireSize} }

\* make_mock_packet_header: packet_length 16, msg_count 2, pkt_seq_num 12345,
\* channel_id 1, send_time 13305500, each in network byte order
MockPacketHeader ==
  <<EscCode, 1, 0, 16, 0, 2, 0, 0, 48, 57, 0, 1, 0, 203, 6, 156>>

\* the leading bytes of a trade record whose match_price is FF FF FF FF
NegativePriceTrade ==
  <<0, R02TradeWireSize, KindR, Type2>> \o [i \in 1..ProdIdLen |-> 64 + i]
  \o <<255, 255, 255, 255>>

\* the leading bytes of a snapshot record whose first bid price is
\* FF FF FF FE and whose status and bid level count are 255 and 0
NegativePriceSnapshot ==
  <<0, R06SnapshotWireSize, KindR, Type6>> \o [i \in 1..ProdIdLen |-> 64 + i]
  \o <<255, 0, 0, 0, 1, 0, 255, 255, 255, 254>>

LongHeads == {MockPacketHeader, NegativePriceTrade, NegativePriceSnapshot}

\* the filler of a buffer: all zeros, or bytes that differ from one offset to
\* the next
Seeds == {0, 37}

\* single bytes written over a buffer: the bytes the parsers pass through
\* (prod_status, bid_level_cnt, side, ask_level_cnt) and the first byte after
\* each record
NoWrite == [at |-> -1, byte |-> 0]
Writes ==
  {NoWrite} \cup
  { [at |-> o, byte |-> b] :
      o \in {24, 29, R02TradeWireSize - 1, R02TradeWireSize, 90,
             R06SnapshotWireSize},
      b \in {2, 255} }

\* the buffer of n bytes that starts with h (cut to n), goes on with the
\* filler of seed s, and has the byte of w written over it if that is inside
Datagram(h, n, s, w) ==
  LET in == IF w.at < n THEN w ELSE NoWrite
  IN IF n <= Len(h)
       THEN [head |-> SubSeq(h, 1, n), pad |-> 0, seed |-> s,
             at |-> in.at, byte |-> in.byte]
     ELSE [head |-> h, pad |-> n - Len(h), seed |-> s,
           at |-> in.at, byte |-> in.byte]

InitTaifex ==
  /\ msg_type_ = <<>>
  /\ sender_comp_id_ = <<>>
  /\ target_comp_id_ = <<>>
  /\ msg_seq_num_ = 0
  /\ sending_time_ = <<>>
  /\ fields_ = <<>>
  /\ built = NotBuilt
  /\ prev_built = NotBuilt
  /\ InitWire
  /\ IdlePure
  /\ IdleTaifex
  /\ IdleQueue

\* a datagram arrives; each buffer is handed to one of the parsers
Receive ==
  /\ data = NoData
  /\ \E h \in PacketHeads \cup RecordHeads \cup LongHeads, n \in DataSizes,
        s \in Seeds, w \in Writes : data' = Datagram(h, n, s, w)
  /\ decoded' = NotDecoded
  /\ UNCHANGED <<builder, built, prev_built, wire, pure, queue>>

Decode(result) ==
  /\ decoded = NotDecoded
  /\ decoded' = result
  /\ UNCHANGED data
  /\ UNCHANGED <<builder, built, prev_built, wire, pure, queue>>

ParsePacketHeader == Decode(parse_packet_header(data))
ParseR06Snapshot == Decode(parse_r06_snapshot(data))
ParseR02Trade == Decode(parse_r02_trade(data))

NextTaifex ==
  \/ Receive
  \/ ParsePacketHeader
  \/ ParseR06Snapshot
  \/ ParseR02Trade

SpecTaifex == InitTaifex /\ [][NextTaifex]_vars

----------------------------------------------------------------------------
(* The single-producer single-consumer ring (tx/sync/spsc_queue.hpp) driven by
   the two threads of SPSCQueueMTTest.Ordering. Each step is one access to a
   shared object: a load or a store of head_, tail_ or done, or the read or
   write of one slot of buffer_. The stores of tail_, head_ and done are
   release stores and the loads of tail_ in try_pop and of done are acquire
   loads; the load of head_ in try_push is relaxed, and the write of the slot
   that follows it depends on its outcome. *)

\* messages the producer sends
NumMessages == 10

\* what the slots of a default-initialised std::array<int, N> may hold
Indeterminate == {-1, 0}

\* kIndexMask
kIndexMask == Capacity - 1

\* x & kIndexMask, Capacity being a power of two
Masked(x) == x % (kIndexMask + 1)

\* a size() that does not wrap
size_unwrapped(h, t) == t - h

\* size() on the loaded h and t: (t - h) & kIndexMask in size_t arithmetic
size(h, t) == Masked(t - h + Capacity)

\* an empty() that holds whatever was loaded
empty_always(h, t) == TRUE

\* empty() on the loaded h and t
empty(h, t) == h = t

\* a full test that never holds
full_never(nxt_tail, h) == FALSE

\* nxt_tail == head_.load(): no free slot
full(nxt_tail, h) == nxt_tail = h

InitQueue ==
  /\ msg_type_ = <<>>
  /\ sender_comp_id_ = <<>>
  /\ target_comp_id_ = <<>>
  /\ msg_seq_num_ = 0
  /\ sending_time_ = <<>>
  /\ fields_ = <<>>
  /\ built = NotBuilt
  /\ prev_built = NotBuilt
  /\ InitWire
  /\ IdlePure
  /\ IdleTaifex
  /\ \E g \in Indeterminate : NewQueue(g)

NoQueueChange == UNCHANGED <<builder, built, prev_built, wire, pure, taifex>>

\* try_push: size_t cur_tail = tail_.load(relaxed); nxt_tail = ...
PushLoadTail ==
  /\ producer.pc = "load_tail"
  /\ producer' = [producer EXCEPT !.pc = "load_head", !.cur_tail = tail_,
                                  !.nxt_tail = Masked(tail_ + 1)]
  /\ UNCHANGED <<head_, tail_, buffer_, done, consumed, accepted, consumer>>
  /\ NoQueueChange

\* try_push: if (nxt_tail == head_.load(relaxed)) return false; the caller
\* spins and calls again
PushLoadHead ==
  /\ producer.pc = "load_head"
  /\ producer' = [producer EXCEPT !.pc = IF full(producer.nxt_tail, head_)
                                           THEN "load_tail"
                                         ELSE "store_value"]
  /\ UNCHANGED <<head_, tail_, buffer_, done, consumed, accepted, consumer>>
  /\ NoQueueChange

\* try_push: buffer_[cur_tail] = std::move(value)
PushStoreValue ==
  /\ producer.pc = "store_value"
  /\ buffer_' = [buffer_ EXCEPT ![producer.cur_tail] = producer.i]
  /\ producer' = [producer EXCEPT !.pc = "store_tail"]
  /\ UNCHANGED <<head_, tail_, done, consumed, accepted, consumer>>
  /\ NoQueueChange

\* try_push: tail_.store(nxt_tail, release); return true; the loop goes on to
\* the next i
PushStoreTail ==
  /\ producer.pc = "store_tail"
  /\ tail_' = producer.nxt_tail
  /\ accepted' = Append(accepted, producer.i)
  /\ producer' = [producer EXCEPT !.i = producer.i + 1,
                                  !.pc = IF producer.i + 1 < NumMessages
                                           THEN "load_tail"
                                         ELSE "store_done"]
  /\ UNCHANGED <<head_, buffer_, done, consumed, consumer>>
  /\ NoQueueChange

\* done.store(true, release), and the thread ends
StoreDone ==
  /\ producer.pc = "store_done"
  /\ done' = TRUE
  /\ producer' = [producer EXCEPT !.pc = "joined"]
  /\ UNCHANGED <<head_, tail_, buffer_, consumed, accepted, consumer>>
  /\ NoQueueChange

\* while (!done.load(acquire) || ...): an unset flag enters the loop body
LoadDone ==
  /\ consumer.pc = "load_done"
  /\ consumer' = [consumer EXCEPT !.pc = IF ~done THEN "load_head"
                                         ELSE "empty_load_head"]
  /\ UNCHANGED <<head_, tail_, buffer_, done, consumed, accepted, producer>>
  /\ NoQueueChange

\* empty(): size_t h = head_.load(relaxed)
EmptyLoadHead ==
  /\ consumer.pc = "empty_load_head"
  /\ consumer' = [consumer EXCEPT !.pc = "empty_load_tail", !.h = head_]
  /\ UNCHANGED <<head_, tail_, buffer_, done, consumed, accepted, producer>>
  /\ NoQueueChange

\* empty(): size_t t = tail_.load(relaxed); return h == t; an empty queue
\* ends the loop and the thread
EmptyLoadTail ==
  /\ consumer.pc = "empty_load_tail"
  /\ consumer' = [consumer EXCEPT !.pc = IF empty(consumer.h, tail_)
                                           THEN "joined"
                                         ELSE "load_head"]
  /\ UNCHANGED <<head_, tail_, buffer_, done, consumed, accepted, producer>>
  /\ NoQueueChange

\* try_pop: size_t cur_head = head_.load(relaxed)
PopLoadHead ==
  /\ consumer.pc = "load_head"
  /\ consumer' = [consumer EXCEPT !.pc = "load_tail", !.cur_head = head_]
  /\ UNCHANGED <<head_, tail_, buffer_, done, consumed, accepted, producer>>
  /\ NoQueueChange

\* try_pop: if (cur_head == tail_.load(acquire)) return std::nullopt
PopLoadTail ==
  /\ consumer.pc = "load_tail"
  /\ consumer' = [consumer EXCEPT !.pc = IF consumer.cur_head = tail_
                                           THEN "load_done"
                                         ELSE "move_value"]
  /\ UNCHANGED <<head_, tail_, buffer_, done, consumed, accepted, producer>>
  /\ NoQueueChange

\* try_pop: T value = std::move(buffer_[cur_head])
PopMoveValue ==
  /\ consumer.pc = "move_value"
  /\ consumer' = [consumer EXCEPT !.pc = "store_head",
                                  !.value = buffer_[consumer.cur_head]]
  /\ UNCHANGED <<head_, tail_, buffer_, done, consumed, accepted, producer>>
  /\ NoQueueChange

\* try_pop: head_.store(nxt_head, release); return value; the caller appends
\* it to consumed
PopStoreHead ==
  /\ consumer.pc = "store_head"
  /\ head_' = Masked(consumer.cur_head + 1)
  /\ consumed' = Append(consumed, consumer.value)
  /\ consumer' = [consumer EXCEPT !.pc = "load_done"]
  /\ UNCHANGED <<tail_, buffer_, done, accepted, producer>>
  /\ NoQueueChange

ProducerStep ==
  \/ PushLoadTail
  \/ PushLoadHead
  \/ PushStoreValue
  \/ PushStoreTail
  \/ StoreDone

ConsumerStep ==
  \/ LoadDone
  \/ EmptyLoadHead
  \/ EmptyLoadTail
  \/ PopLoadHead
  \/ PopLoadTail
  \/ PopMoveValue
  \/ PopStoreHead

NextQueue == ProducerStep \/ ConsumerStep

SpecQueue == InitQueue /\ [][NextQueue]_vars

\* both threads are scheduled again and again until they end
SpecQueueFair == SpecQueue /\ WF_vars(ProducerStep) /\ WF_vars(ConsumerStep)

----------------------------------------------------------------------------
(* Reading a built message back, byte by byte *)

RECURSIVE SumBytes(_)
\* the sum of the unsigned values of the bytes of s
SumBytes(s) == IF s = <<>> THEN 0 ELSE Head(s) + SumBytes(Tail(s))

\* the bytes of the field tag=value<SOH>
FieldBytes(tag, value) == FormatInt(tag) \o <<EqualsSign>> \o value \o <<SOH>>

\* the index of the last SOH of m before index i, 0 when there is none
LastSohBefore(m, i) ==
  LET hits == {j \in 1..(i - 1) : m[j] = SOH}
  IN IF hits = {} THEN 0 ELSE CHOOSE j \in hits : \A k \in hits : k <= j

\* the first byte of the trailing field of a message that ends in SOH
TrailerStart(m) == LastSohBefore(m, Len(m)) + 1

StartsWithAt(m, i, piece) ==
  /\ i + Len(piece) - 1 <= Len(m)
  /\ SubSeq(m, i, i + Len(piece) - 1) = piece

RequiredValid ==
  /\ msg_type_ # <<>> /\ sender_comp_id_ # <<>> /\ target_comp_id_ # <<>>
  /\ sending_time_ # <<>> /\ msg_seq_num_ > 0

WasParsed == parsed.err # "NotParsed"

ChecksumPrefix == FormatInt(TagChecksum) \o <<EqualsSign>>

----------------------------------------------------------------------------
(* Claims about the builder *)

\* C1 (as stated): for every builder with valid required fields and every
\* sequence of add_field calls, Parser::parse(build()) succeeds, begin_string
\* and msg_type are the builder's, and find_field(tag) returns the value set
\* for 49, 56, 34, 52 and for every added field.
C1_RoundTripAny ==
  (built.ok /\ WasParsed /\ buffer = built.msg) =>
    /\ parsed.ok
    /\ parsed.msg.begin_string = begin_string_
    /\ parsed.msg.msg_type = msg_type_
    /\ find_field(parsed.msg, TagSenderCompId) = [has |-> TRUE, value |-> sender_comp_id_]
    /\ find_field(parsed.msg, TagTargetCompId) = [has |-> TRUE, value |-> target_comp_id_]
    /\ find_field(parsed.msg, TagMsgSeqSum) = [has |-> TRUE, value |-> FormatInt(msg_seq_num_)]
    /\ find_field(parsed.msg, TagSendingTime) = [has |-> TRUE, value |-> sending_time_]
    /\ \A i \in 1..Len(fields_) :
         find_field(parsed.msg, fields_[i].tag) = [has |-> TRUE, value |-> FieldValue(fields_[i])]

\* The round trip on builders whose added fields the wire format can carry:
\* tags other than 10 that occur once and differ from 49, 56, 34 and 52, and
\* values without SOH.
Carried ==
  \A i \in 1..Len(fields_) :
    /\ fields_[i].tag \notin {TagChecksum, TagSenderCompId, TagTargetCompId,
                              TagMsgSeqSum, TagSendingTime, SentinelTag}
    /\ \A j \in 1..Len(fields_) : fields_[j].tag = fields_[i].tag => j = i
    /\ \A k \in 1..Len(FieldValue(fields_[i])) : FieldValue(fields_[i])[k] # SOH

RoundTripCarried == Carried => C1_RoundTripAny

\* C4: in every built message the decimal value of the BodyLength field is
\* the number of bytes between the SOH ending that field and the first byte
\* of the trailing Checksum field.
C4_BodyLength ==
  built.ok =>
    LET m == built.msg
        soh1 == Find(m, SOH, 1)
        soh2 == Find(m, SOH, soh1 + 1)
        declared == to_int(SubSeq(m, soh1 + 3, soh2 - 1))
    IN /\ soh1 > 0 /\ soh2 > 0
       /\ StartsWithAt(m, soh1 + 1, FormatInt(TagBodyLength) \o <<EqualsSign>>)
       /\ m[Len(m)] = SOH
       /\ StartsWithAt(m, TrailerStart(m), ChecksumPrefix)
       /\ declared.has
       /\ declared.val = TrailerStart(m) - 1 - soh2

C4_Witness ==
  /\ built.ok /\ Len(fields_) = MaxFields
  /\ \E i \in 1..Len(fields_) : FieldValue(fields_[i]) = <<65, SOH>>

\* C5 (as stated): every built message ends with "10=" followed by exactly
\* three decimal digits and SOH, the digits being the zero-padded sum modulo
\* 256 of all bytes that precede the Checksum field.
C5_ChecksumTrailer ==
  built.ok =>
    LET m == built.msg
        t == TrailerStart(m)
    IN /\ m[Len(m)] = SOH
       /\ Len(m) - t + 1 = Len(ChecksumPrefix) + ChecksumWidth + 1
       /\ StartsWithAt(m, t, ChecksumPrefix)
       /\ \A i \in (t + 3)..(Len(m) - 1) : IsDigit(m[i])
       /\ DigitsValue(SubSeq(m, t + 3, Len(m) - 1), 0)
            = SumBytes(SubSeq(m, 1, t - 1)) % 256

\* C6: build() fails with MissingSender / MissingTarget / MissingSendingTime /
\* InvalidSeqSum when that one required field is invalid and the others are
\* valid, and returns a message only when every required field is valid.
C6_Validation ==
  built # NotBuilt =>
    LET mt == msg_type_ # <<>>
        snd == sender_comp_id_ # <<>>
        tgt == target_comp_id_ # <<>>
        tm == sending_time_ # <<>>
        seq == msg_seq_num_ > 0
    IN /\ (mt /\ ~snd /\ tgt /\ tm /\ seq) => built = Err("MissingSender")
       /\ (mt /\ snd /\ ~tgt /\ tm /\ seq) => built = Err("MissingTarget")
       /\ (mt /\ snd /\ tgt /\ ~tm /\ seq) => built = Err("MissingSendingTime")
       /\ (mt /\ snd /\ tgt /\ tm /\ ~seq) => built = Err("InvalidSeqSum")
       /\ built.ok => RequiredValid

C6_Witness ==
  /\ built = Err("InvalidSeqSum")
  /\ msg_seq_num_ = 0
  /\ msg_type_ # <<>> /\ sender_comp_id_ # <<>> /\ target_comp_id_ # <<>>
  /\ sending_time_ # <<>>

C9_FieldOrder ==
  built.ok =>
    LET m == built.msg
        soh1 == Find(m, SOH, 1)
        soh2 == Find(m, SOH, soh1 + 1)
        t == TrailerStart(m)
        added == [i \in 1..Len(fields_) |->
                    FieldBytes(fields_[i].tag, FieldValue(fields_[i]))]
        p35 == soh2 + 1
        p49 == p35 + Len(FieldBytes(TagMsgType, msg_type_))
        p56 == p49 + Len(FieldBytes(TagSenderCompId, sender_comp_id_))
        p34 == p56 + Len(FieldBytes(TagTargetCompId, target_comp_id_))
        p52 == p34 + Len(FieldBytes(TagMsgSeqSum, FormatInt(msg_seq_num_)))
        pAdd == p52 + Len(FieldBytes(TagSendingTime, sending_time_))
        lenUpTo == [i \in 0..Len(fields_) |->
                     SumBytes([j \in 1..i |-> Len(added[j])])]
    IN /\ StartsWithAt(m, 1, FieldBytes(TagBeginString, begin_string_))
       /\ StartsWithAt(m, soh1 + 1, FormatInt(TagBodyLength) \o <<EqualsSign>>)
       /\ \A i \in (soh1 + 3)..(soh2 - 1) : IsDigit(m[i])
       /\ StartsWithAt(m, p35, FieldBytes(TagMsgType, msg_type_))
       /\ StartsWithAt(m, p49, FieldBytes(TagSenderCompId, sender_comp_id_))
       /\ StartsWithAt(m, p56, FieldBytes(TagTargetCompId, target_comp_id_))
       /\ StartsWithAt(m, p34, FieldBytes(TagMsgSeqSum, FormatInt(msg_seq_num_)))
       /\ StartsWithAt(m, p52, FieldBytes(TagSendingTime, sending_time_))
       /\ \A i \in 1..Len(fields_) :
            StartsWithAt(m, pAdd + lenUpTo[i - 1], added[i])
       /\ t = pAdd + lenUpTo[Len(fields_)]
       /\ StartsWithAt(m, t, ChecksumPrefix)
       /\ Find(m, SOH, t) = Len(m)

C9_Witness ==
  /\ built.ok /\ Len(fields_) = MaxFields
  /\ fields_[1] # fields_[2]

\* the byte count of tag=value<SOH>
FieldSize(tag, valueLen) == Len(FormatInt(tag)) + 1 + valueLen + 1

\* the length of a held value
ValueLen(f) == Len(f.value) + f.fill

RECURSIVE AddedSize(_)
AddedSize(fs) ==
  IF fs = <<>> THEN 0
  ELSE FieldSize(Head(fs).tag, ValueLen(Head(fs))) + AddedSize(Tail(fs))

\* the byte count of the body: 35, 49, 56, 34, 52 and the added fields
BodySize ==
  FieldSize(TagMsgType, Len(msg_type_))
  + FieldSize(TagSenderCompId, Len(sender_comp_id_))
  + FieldSize(TagTargetCompId, Len(target_comp_id_))
  + FieldSize(TagMsgSeqSum, Len(FormatInt(msg_seq_num_)))
  + FieldSize(TagSendingTime, Len(sending_time_))
  + AddedSize(fields_)

\* C8: with all required fields valid, build() fails with BodyLengthExceeded
\* exactly when the body is longer than 99999 bytes: a body of exactly 99999
\* bytes builds, and a single added value longer than 99999 bytes fails.
C8_BodyLengthLimit ==
  (built # NotBuilt /\ RequiredValid) =>
    /\ (built = Err("BodyLengthExceeded")) <=> (BodySize > 99999)
    /\ (BodySize <= 99999) => built.ok
    /\ (\E i \in 1..Len(fields_) : ValueLen(fields_[i]) > 99999)
         => built = Err("BodyLengthExceeded")

C8_Witness ==
  /\ built.ok /\ BodySize = 99999 /\ fields_ # <<>>

\* the error kinds the claim lists
FiveBuildErrors ==
  {"MissingSender", "MissingTarget", "MissingSendingTime", "InvalidSeqSum",
   "BodyLengthExceeded"}

\* C18 (as stated): every failure of build() carries one of the five kinds
\* MissingSender, MissingTarget, MissingSendingTime, InvalidSeqSum and
\* BodyLengthExceeded, also for a builder constructed with an empty MsgType.
C18_FiveErrorKinds ==
  (built # NotBuilt /\ ~built.ok) => built.err \in FiveBuildErrors

\* C18 (amended): every failure of build() carries MissingMsgType or one of
\* the five kinds, and a builder constructed with an empty MsgType fails
\* with MissingMsgType whatever its other fields are.
C18_SixErrorKinds ==
  built # NotBuilt =>
    /\ ~built.ok => built.err \in FiveBuildErrors \cup {"MissingMsgType"}
    /\ msg_type_ = <<>> => built = Err("MissingMsgType")
    /\ built.err = "MissingMsgType" => msg_type_ = <<>>

C18_Witness ==
  /\ built = Err("MissingMsgType")
  /\ msg_type_ = <<>>
  /\ sender_comp_id_ # <<>> /\ target_comp_id_ # <<>> /\ sending_time_ # <<>>
  /\ msg_seq_num_ > 0
  /\ fields_ # <<>>

----------------------------------------------------------------------------
(* Claims about the parser *)

\* the three header fields as the tokenizer returns them
Field8(buf) == parse_field(buf)
Field9(buf) == parse_field(Field8(buf).rest)
Field35(buf) == parse_field(Field9(buf).rest)

\* s is an optional '-' followed by one or more digits and nothing else
IsDecimalInteger(s) ==
  LET d == IF s # <<>> /\ s[1] = MinusSign THEN Tail(s) ELSE s
  IN d # <<>> /\ \A i \in 1..Len(d) : IsDigit(d[i])

RECURSIVE NegDigitsValue(_, _)
\* minus the value of a run of digits
NegDigitsValue(s, acc) ==
  IF s = <<>> THEN acc
  ELSE NegDigitsValue(Tail(s), acc * 10 - (Head(s) - DigitZero))

\* the value of a decimal integer text that an int holds
DecimalValue(s) ==
  IF s[1] = MinusSign THEN NegDigitsValue(Tail(s), 0) ELSE DigitsValue(s, 0)

RECURSIVE StripZeros(_)
StripZeros(d) ==
  IF Len(d) > 1 /\ Head(d) = DigitZero THEN StripZeros(Tail(d)) ELSE d

RECURSIVE DigitsLessEq(_, _)
\* a <= b for runs of digits of the same length
DigitsLessEq(a, b) ==
  IF a = <<>> THEN TRUE
  ELSE IF Head(a) # Head(b) THEN Head(a) < Head(b)
  ELSE DigitsLessEq(Tail(a), Tail(b))

\* the digits of 2147483647 and of 2147483648
IntMaxDigits == <<50, 49, 52, 55, 52, 56, 51, 54, 52, 55>>
IntMinDigits == <<50, 49, 52, 55, 52, 56, 51, 54, 52, 56>>

\* s is a decimal integer that an int holds: -2147483648 .. 2147483647
IsIntText(s) ==
  /\ IsDecimalInteger(s)
  /\ LET neg == s[1] = MinusSign
         d == StripZeros(IF neg THEN Tail(s) ELSE s)
         top == IF neg THEN IntMinDigits ELSE IntMaxDigits
     IN \/ Len(d) < Len(top)
        \/ Len(d) = Len(top) /\ DigitsLessEq(d, top)

\* the 8/9/35 header of buf passes the parser's header checks
HeaderValid(buf) ==
  /\ buf # <<>>
  /\ Field8(buf).tag = TagBeginString
  /\ Field9(buf).tag = TagBodyLength
  /\ IsIntText(Field9(buf).value)
  /\ Field35(buf).tag = TagMsgType

\* the value declared by the Checksum field at offset off of buf: its
\* integer value, 0 when it is no integer
DeclaredAt(buf, off) ==
  LET soh == Find(buf, SOH, off + 1)
      text == SubSeq(buf, off + 4, soh - 1)
  IN IF IsIntText(text) THEN DecimalValue(text) ELSE 0

C3_ChecksumDecides ==
  (WasParsed /\ HeaderValid(buffer) /\ ChecksumFieldOffset(buffer) >= 0) =>
    LET off == ChecksumFieldOffset(buffer)
        matches == DeclaredAt(buffer, off)
                     = SumUnsigned(SubSeq(buffer, 1, off)) % 256
    IN /\ parsed.ok <=> matches
       /\ ~matches => parsed = ParseErr("InvalidCheckSum")

\* C10: an empty buffer fails with EmptyMessage; a first field that is not
\* tag 8 gives MissingBeginString; else a second field that is not tag 9
\* gives MissingBodyLength; else a tag-9 value that is not a decimal integer
\* gives InvalidFormat; whatever follows in the buffer.
C10_HeaderOrder ==
  WasParsed =>
    /\ buffer = <<>> => parsed = ParseErr("EmptyMessage")
    /\ (buffer # <<>> /\ Field8(buffer).tag # TagBeginString)
         => parsed = ParseErr("MissingBeginString")
    /\ (/\ buffer # <<>>
        /\ Field8(buffer).tag = TagBeginString
        /\ Field9(buffer).tag # TagBodyLength)
         => parsed = ParseErr("MissingBodyLength")
    /\ (/\ buffer # <<>>
        /\ Field8(buffer).tag = TagBeginString
        /\ Field9(buffer).tag = TagBodyLength
        /\ ~IsDecimalInteger(Field9(buffer).value))
         => parsed = ParseErr("InvalidFormat")

C10_Witness ==
  /\ parsed = ParseErr("InvalidFormat")
  /\ Field8(buffer).tag = TagBeginString
  /\ Field9(buffer).tag = TagBodyLength
  /\ ~IsDecimalInteger(Field9(buffer).value)
  /\ chunks = MaxChunks

\* the buffer starts with a BeginString field and a BodyLength field whose
\* value is an integer
Header89Valid(buf) ==
  /\ buf # <<>>
  /\ Field8(buf).tag = TagBeginString
  /\ Field9(buf).tag = TagBodyLength
  /\ IsIntText(Field9(buf).value)

\* C11 (as stated): after valid BeginString and BodyLength fields, parse
\* fails with MissingMsgType when no field follows (the buffer ends or no
\* further field can be tokenized), and with InvalidFormat when a well-formed
\* field with a tag other than 35 follows.
C11_MsgTypeErrors ==
  (WasParsed /\ Header89Valid(buffer)) =>
    /\ Field35(buffer) = Sentinel => parsed = ParseErr("MissingMsgType")
    /\ Field35(buffer).tag \notin {SentinelTag, TagMsgType}
         => parsed = ParseErr("InvalidFormat")

\* the part of C11 about a present field with another tag
C11_OtherTagInvalidFormat ==
  (WasParsed /\ Header89Valid(buffer)
   /\ Field35(buffer).tag \notin {SentinelTag, TagMsgType})
  => parsed = ParseErr("InvalidFormat")

----------------------------------------------------------------------------
(* The wire text cut at its SOH bytes, without the tokenizer *)

RECURSIVE SplitFields(_)
\* the pieces of s that an SOH ends, in order, and last the bytes that no SOH
\* ends, when there are any
SplitFields(s) ==
  IF s = <<>> THEN <<>>
  ELSE LET soh == Find(s, SOH, 1)
       IN IF soh = 0 THEN <<[text |-> s, terminated |-> FALSE]>>
          ELSE <<[text |-> SubSeq(s, 1, soh - 1), terminated |-> TRUE]>>
               \o SplitFields(SubSeq(s, soh + 1, Len(s)))

PieceTagText(p) == SubSeq(p.text, 1, Find(p.text, EqualsSign, 1) - 1)
PieceValue(p) == SubSeq(p.text, Find(p.text, EqualsSign, 1) + 1, Len(p.text))

\* the piece reads tag=value with an integer tag and is ended by an SOH
WellFormedPiece(p) ==
  /\ p.terminated
  /\ Find(p.text, EqualsSign, 1) > 0
  /\ IsIntText(PieceTagText(p))

PieceTag(p) == DecimalValue(PieceTagText(p))

\* the number of leading well-formed pieces of ps
RECURSIVE GoodRun(_)
GoodRun(ps) ==
  IF ps = <<>> \/ ~WellFormedPiece(Head(ps)) THEN 0 ELSE 1 + GoodRun(Tail(ps))

\* the index of the first Checksum piece among the leading well-formed
\* pieces after the three header pieces, 0 when there is none
FirstChecksumPiece(ps) ==
  LET hits == {k \in (HeaderSlots + 1)..GoodRun(ps) : PieceTag(ps[k]) = TagChecksum}
  IN IF hits = {} THEN 0 ELSE CHOOSE k \in hits : \A j \in hits : k <= j

\* the number of bytes of the wire text before piece k
RECURSIVE PieceOffset(_, _)
PieceOffset(ps, k) ==
  IF k <= 1 THEN 0 ELSE PieceOffset(ps, k - 1) + Len(ps[k - 1].text) + 1

\* C12: after a valid 8/9/35 header, when the buffer ends or a malformed
\* field is met before any field with tag 10, parse fails with
\* MissingChecksum and returns no message.
C12_MissingChecksum ==
  (WasParsed /\ HeaderValid(buffer)
   /\ FirstChecksumPiece(SplitFields(buffer)) = 0)
  => parsed = ParseErr("MissingChecksum")

C12_Witness ==
  /\ parsed = ParseErr("MissingChecksum")
  /\ HeaderValid(buffer)
  /\ FirstChecksumPiece(SplitFields(buffer)) = 0
  /\ GoodRun(SplitFields(buffer)) > HeaderSlots
  /\ GoodRun(SplitFields(buffer)) < Len(SplitFields(buffer))

\* every byte of s is below 0x80
Ascii(s) == \A i \in 1..Len(s) : s[i] < 128

\* C13 (as stated): for every accepted message, begin_string, body_length and
\* msg_type are the values of the first three fields, fields is the sequence
\* of (tag, value) pairs between the MsgType field and the first tag-10
\* field in wire order, and checksum is the sum modulo 256 of the bytes
\* before the tag-10 field.
C13_ParsedContents ==
  (WasParsed /\ parsed.ok) =>
    LET ps == SplitFields(buffer)
        k == FirstChecksumPiece(ps)
    IN /\ k > HeaderSlots
       /\ parsed.msg.begin_string = PieceValue(ps[1])
       /\ parsed.msg.body_length = DecimalValue(PieceValue(ps[2]))
       /\ parsed.msg.msg_type = PieceValue(ps[3])
       /\ parsed.msg.fields =
            [i \in 1..(k - 1 - HeaderSlots) |->
               [tag |-> PieceTag(ps[i + HeaderSlots]),
                value |-> PieceValue(ps[i + HeaderSlots])]]
       /\ parsed.msg.checksum
            = SumUnsigned(SubSeq(buffer, 1, PieceOffset(ps, k))) % 256

\* C13 on buffers of bytes below 0x80
C13_ParsedContentsAscii == Ascii(buffer) => C13_ParsedContents

\* the Checksum piece k of ps declares the sum modulo 256 of the bytes
\* before it
ChecksumCorrect(buf, ps, k) ==
  /\ IsIntText(PieceValue(ps[k]))
  /\ DecimalValue(PieceValue(ps[k]))
       = SumUnsigned(SubSeq(buf, 1, PieceOffset(ps, k))) % 256

\* C14 (as stated): a message with a valid header and a correct checksum
\* parses for every integer declared in tag 9, equal or not to the byte count
\* between the BodyLength and Checksum fields, zero or negative; body_length
\* is the declared value; BodyLengthMismatch is never returned.
C14_NoBodyLengthCheck ==
  WasParsed =>
    /\ parsed.err # "BodyLengthMismatch"
    /\ LET ps == SplitFields(buffer)
           k == FirstChecksumPiece(ps)
       IN (HeaderValid(buffer) /\ k > 0 /\ ChecksumCorrect(buffer, ps, k)) =>
            /\ parsed.ok
            /\ parsed.msg.body_length = DecimalValue(PieceValue(ps[2]))

\* C14 on buffers of bytes below 0x80
C14_NoBodyLengthCheckAscii == Ascii(buffer) => C14_NoBodyLengthCheck

\* an accepted all-ASCII message whose tag 9 declares a value that is not
\* the byte count between the BodyLength and Checksum fields
C14_AsciiMismatchAccepted ==
  /\ WasParsed /\ parsed.ok /\ Ascii(buffer)
  /\ LET ps == SplitFields(buffer)
         k == FirstChecksumPiece(ps)
     IN /\ parsed.msg.body_length <= 0
        /\ PieceOffset(ps, k) - PieceOffset(ps, HeaderSlots) > 0

----------------------------------------------------------------------------
(* Claims about the tokenizer, the conversion and the checksum *)

C15_OutOfRangeTag ==
  /\ tokenized.called
  /\ tokenized.out = Sentinel
  /\ Find(span, EqualsSign, 1) > 1
  /\ IsDecimalInteger(SubSeq(span, 1, Find(span, EqualsSign, 1) - 1))
  /\ Find(span, SOH, Find(span, EqualsSign, 1)) > 0

\* C16: to_int returns a value exactly when the whole span is a decimal
\* integer (optional leading '-', digits only, within int range), and then
\* that integer; it returns nothing for an empty span, for leading or
\* trailing non-numeric bytes, and for an out-of-range number.
C16_ToIntStrict ==
  converted.called =>
    /\ converted.out.has <=> IsIntText(span)
    /\ converted.out.has => converted.out.val = DecimalValue(span)
    /\ span = <<>> => ~converted.out.has

C16_Witness ==
  /\ converted.called
  /\ converted.out = Some(IntMin)

\* C17 (as stated): both checksum functions return, for every byte string,
\* the sum of the unsigned values of its bytes modulo 256, a value in
\* 0..255.
C17_ChecksumUnsigned ==
  summed.called =>
    /\ summed.parser = SumUnsigned(span) % 256
    /\ summed.builder = SumUnsigned(span) % 256
    /\ summed.parser \in 0..255
    /\ summed.builder \in 0..255

\* C17 on byte strings whose bytes are all below 0x80
C17_ChecksumUnsignedAscii == Ascii(span) => C17_ChecksumUnsigned

----------------------------------------------------------------------------
(* Claims about the TAIFEX decoders *)

\* the big-endian 16-bit number at offset off
BigEndian16(d, off) == At(d, off) * 256 + At(d, off + 1)

\* C19: a buffer shorter than 16 bytes fails parse_packet_header with
\* BufferTooSmall, one shorter than 163 bytes fails parse_r06_snapshot with
\* BufferTooSmall, one shorter than 45 bytes fails parse_r02_trade with
\* BufferTooSmall, whatever the bytes are.
C19_MinimumSize ==
  /\ (decoded.kind = "packet_header" /\ Size(data) < 16)
       => decoded = TaifexErr("packet_header", "buffer_too_small")
  /\ (decoded.kind = "r06_snapshot" /\ Size(data) < 163)
       => decoded = TaifexErr("r06_snapshot", "buffer_too_small")
  /\ (decoded.kind = "r02_trade" /\ Size(data) < 45)
       => decoded = TaifexErr("r02_trade", "buffer_too_small")

C19_Witness ==
  /\ decoded = TaifexErr("r06_snapshot", "buffer_too_small")
  /\ Size(data) = 162
  /\ At(data, 2) = KindR /\ At(data, 3) = Type6

\* C20: on a buffer of at least 16 bytes parse_packet_header fails with
\* InvalidEscCode when esc_code is not 0x1B; else with InvalidMsgCount when
\* msg_count is 0 or above 100; else with InvalidPacketLength when
\* packet_length is below 16 or above the buffer length; else it succeeds.
\* A returned header has esc_code 0x1B, 1 <= msg_count <= 100 and
\* 16 <= packet_length <= buffer length.
C20_HeaderDecisionList ==
  (decoded.kind = "packet_header" /\ Size(data) >= 16) =>
    LET esc_code == At(data, 0)
        packet_length == BigEndian16(data, 2)
        msg_count == BigEndian16(data, 4)
    IN /\ IF esc_code # 27
            THEN decoded = TaifexErr("packet_header", "invalid_esc_code")
          ELSE IF msg_count = 0 \/ msg_count > 100
            THEN decoded = TaifexErr("packet_header", "invalid_msg_count")
          ELSE IF packet_length < 16 \/ packet_length > Size(data)
            THEN decoded = TaifexErr("packet_header", "invalid_packet_length")
          ELSE decoded.ok
       /\ decoded.ok =>
            /\ decoded.value.esc_code = 27
            /\ decoded.value.msg_count \in 1..100
            /\ decoded.value.packet_length \in 16..Size(data)

C20_Witness ==
  /\ decoded = TaifexErr("packet_header", "invalid_msg_count")
  /\ Size(data) >= 16
  /\ At(data, 0) = 27
  /\ BigEndian16(data, 4) = 0
  /\ BigEndian16(data, 2) < 16

----------------------------------------------------------------------------
(* The decoded integers against the bytes on the wire *)

\* the k bytes at offset off, first byte first: the base-256 digits of their
\* big-endian value
BigEndianBytes(d, off, k) == [i \in 1..k |-> At(d, off + i - 1)]

\* the number a word below 2^31 stands for
WordValue(w) == ((w[1] * 256 + w[2]) * 256 + w[3]) * 256 + w[4]

\* the signed 32-bit two's-complement value of the four bytes at offset off,
\* first byte most significant
SignedBigEndian32(d, off) ==
  (IF At(d, off) >= 128 THEN At(d, off) - 256 ELSE At(d, off)) * 16777216
  + At(d, off + 1) * 65536 + At(d, off + 2) * 256 + At(d, off + 3)

\* a converted level against the twelve bytes at offset off
LevelIsBigEndian(level, d, off) ==
  /\ level.price = SignedBigEndian32(d, off)
  /\ level.quantity = BigEndianBytes(d, off + 4, 4)
  /\ level.order_count = BigEndianBytes(d, off + 8, 4)

\* C21: in every successful result of parse_packet_header, parse_r06_snapshot
\* and parse_r02_trade each multi-byte integer is the big-endian value of the
\* bytes at its fixed offset: 16-bit packet_length, msg_count and channel_id,
\* 32-bit pkt_seq_num, send_time, update_time, quantities, order counts and
\* volumes, 64-bit match_time; prices are signed 32-bit two's-complement
\* values, FF FF FF FF being -1.
C21_BigEndianDecode ==
  decoded.ok =>
    LET v == decoded.value
    IN /\ decoded.kind = "packet_header" =>
            /\ v.packet_length = BigEndian16(data, 2)
            /\ v.msg_count = BigEndian16(data, 4)
            /\ v.pkt_seq_num = BigEndianBytes(data, 6, 4)
            /\ v.channel_id = BigEndian16(data, 10)
            /\ v.send_time = BigEndianBytes(data, 12, 4)
       /\ decoded.kind = "r06_snapshot" =>
            /\ v.update_time = BigEndianBytes(data, 25, 4)
            /\ \A i \in 1..5 :
                 /\ LevelIsBigEndian(v.bid_levels[i], data, 30 + 12 * (i - 1))
                 /\ LevelIsBigEndian(v.ask_levels[i], data, 91 + 12 * (i - 1))
            /\ v.last_price = SignedBigEndian32(data, 151)
            /\ v.last_qty = BigEndianBytes(data, 155, 4)
            /\ v.total_volume = BigEndianBytes(data, 159, 4)
       /\ decoded.kind = "r02_trade" =>
            /\ v.match_price = SignedBigEndian32(data, 24)
            /\ v.match_qty = BigEndianBytes(data, 28, 4)
            /\ v.total_volume = BigEndianBytes(data, 32, 4)
            /\ v.match_time = BigEndianBytes(data, 36, 8)
            /\ BigEndianBytes(data, 24, 4) = <<255, 255, 255, 255>>
                 => v.match_price = -1

\* the mock header of the test decodes to length 16, count 2, sequence number
\* 12345, channel 1 and send time 13305500
C21_Witness ==
  /\ decoded.ok /\ decoded.kind = "packet_header"
  /\ BigEndianBytes(data, 0, 16) = MockPacketHeader
  /\ decoded.value.packet_length = 16
  /\ decoded.value.msg_count = 2
  /\ WordValue(decoded.value.pkt_seq_num) = 12345
  /\ decoded.value.channel_id = 1
  /\ WordValue(decoded.value.send_time) = 13305500

\* a trade whose price bytes are FF FF FF FF decodes to the price -1 while its
\* other integers come from bytes that differ from one another
C21_NegativePriceReached ==
  /\ decoded.ok /\ decoded.kind = "r02_trade"
  /\ BigEndianBytes(data, 24, 4) = <<255, 255, 255, 255>>
  /\ decoded.value.match_price = -1
  /\ decoded.value.match_qty[1] # decoded.value.match_qty[4]

\* C22: on a buffer of at least 163 bytes parse_r06_snapshot fails with
\* InvalidMsgKind when msg_kind is not 'R'; else with InvalidMsgType when
\* msg_type is not '6'; else with InvalidMsgLength when the big-endian
\* msg_length is not 163; else it succeeds. A longer buffer is accepted only
\* if its msg_length is still 163.
C22_SnapshotDecisionList ==
  (decoded.kind = "r06_snapshot" /\ Size(data) >= 163) =>
    /\ IF At(data, 2) # 82
         THEN decoded = TaifexErr("r06_snapshot", "invalid_msg_kind")
       ELSE IF At(data, 3) # 54
         THEN decoded = TaifexErr("r06_snapshot", "invalid_msg_type")
       ELSE IF BigEndian16(data, 0) # 163
         THEN decoded = TaifexErr("r06_snapshot", "invalid_msg_length")
       ELSE decoded.ok
    /\ (decoded.ok /\ Size(data) > 163) => BigEndian16(data, 0) = 163

\* a buffer of 164 bytes with msg_length 163 is accepted
C22_Witness ==
  /\ decoded.ok /\ decoded.kind = "r06_snapshot"
  /\ Size(data) = 164
  /\ At(data, 2) = 82 /\ At(data, 3) = 54
  /\ BigEndian16(data, 0) = 163

\* a wrong kind is reported before a wrong type and a wrong length
C22_KindFirstReached ==
  /\ decoded = TaifexErr("r06_snapshot", "invalid_msg_kind")
  /\ Size(data) >= 163
  /\ At(data, 3) # 54
  /\ BigEndian16(data, 0) # 163

\* C27: on a buffer of at least 45 bytes parse_r02_trade succeeds exactly when
\* msg_kind is 'R' and msg_type is '2'; every rejection, a wrong kind
\* included, is InvalidMsgType and never InvalidMsgKind; msg_length is not
\* looked at.
C27_TradeAcceptance ==
  (decoded.kind = "r02_trade" /\ Size(data) >= 45) =>
    /\ decoded.ok <=> (At(data, 2) = 82 /\ At(data, 3) = 50)
    /\ ~decoded.ok => decoded = TaifexErr("r02_trade", "invalid_msg_type")
    /\ decoded.err # "invalid_msg_kind"
    /\ decoded.err # "invalid_msg_length"

\* a record of kind 'X' and type '2' is rejected with InvalidMsgType
C27_Witness ==
  /\ decoded = TaifexErr("r02_trade", "invalid_msg_type")
  /\ Size(data) >= 45
  /\ At(data, 2) = 88 /\ At(data, 3) = 50

\* a trade record that declares the length 163 is accepted
C27_LengthIgnoredReached ==
  /\ decoded.ok /\ decoded.kind = "r02_trade"
  /\ BigEndian16(data, 0) = 163

\* a level read from the twelve bytes at offset off
WireLevel(d, off) ==
  [price |-> SignedBigEndian32(d, off),
   quantity |-> BigEndianBytes(d, off + 4, 4),
   order_count |-> BigEndianBytes(d, off + 8, 4)]

\* C28: the parsers copy the single bytes and arrays as they are. The side of
\* a trade is the wire byte at offset 44, whatever its value. The prod_id of a
\* snapshot is the 20 wire bytes, prod_status, bid_level_cnt and ask_level_cnt
\* are the wire bytes, and all five bid and five ask levels are converted
\* whatever the counts say. Each result is a function of the bytes below the
\* record size (45, 163) alone.
C28_PassThrough ==
  decoded.ok =>
    /\ decoded.kind = "r02_trade" =>
         decoded.value =
           [prod_id |-> BigEndianBytes(data, 4, 20),
            match_price |-> SignedBigEndian32(data, 24),
            match_qty |-> BigEndianBytes(data, 28, 4),
            total_volume |-> BigEndianBytes(data, 32, 4),
            match_time |-> BigEndianBytes(data, 36, 8),
            side |-> At(data, 44)]
    /\ decoded.kind = "r06_snapshot" =>
         decoded.value =
           [prod_id |-> BigEndianBytes(data, 4, 20),
            prod_status |-> At(data, 24),
            update_time |-> BigEndianBytes(data, 25, 4),
            bid_level_cnt |-> At(data, 29),
            bid_levels |-> [i \in 1..5 |-> WireLevel(data, 30 + 12 * (i - 1))],
            ask_level_cnt |-> At(data, 90),
            ask_levels |-> [i \in 1..5 |-> WireLevel(data, 91 + 12 * (i - 1))],
            last_price |-> SignedBigEndian32(data, 151),
            last_qty |-> BigEndianBytes(data, 155, 4),
            total_volume |-> BigEndianBytes(data, 159, 4)]

\* a snapshot with bid_level_cnt 2, followed by one more byte, whose fifth bid
\* level is converted all the same
C28_Witness ==
  /\ decoded.ok /\ decoded.kind = "r06_snapshot"
  /\ Size(data) = 164 /\ At(data, 163) # 0
  /\ decoded.value.bid_level_cnt = 2
  /\ decoded.value.bid_levels[5].quantity # <<0, 0, 0, 0>>
  /\ decoded.value.bid_levels[5] = WireLevel(data, 78)

\* a trade whose side byte is 255, followed by one more byte
C28_SideReached ==
  /\ decoded.ok /\ decoded.kind = "r02_trade"
  /\ decoded.value.side = 255
  /\ Size(data) = 46 /\ At(data, 45) # 0

----------------------------------------------------------------------------
(* The ring between its two threads *)

\* elements pushed and not yet popped
Held == Len(accepted) - Len(consumed)

\* the values 0 .. n-1 in order
Counting(n) == [k \in 1..n |-> k - 1]

\* the write of a slot by try_push and the read of the same slot by try_pop
\* are never both about to happen
NoConflictingAccess ==
  ~(/\ producer.pc = "store_value"
    /\ consumer.pc = "move_value"
    /\ producer.cur_tail = consumer.cur_head)

\* C23: with one producer thread calling try_push and one consumer thread
\* calling try_pop, at every point of every interleaving the values returned
\* by successful try_pop calls are a prefix of the values accepted by
\* successful try_push calls, in the same order; once both threads have
\* finished every accepted value has been popped exactly once.
C23_FifoNoLossNoDup ==
  /\ Len(consumed) <= Len(accepted)
  /\ consumed = SubSeq(accepted, 1, Len(consumed))
  /\ accepted = Counting(Len(accepted))
  /\ (producer.pc = "joined" /\ consumer.pc = "joined") =>
       /\ consumed = accepted
       /\ consumed = Counting(NumMessages)

\* both threads have finished after the ring wrapped around: the ninth value
\* went through slot 0 again
C23_Witness ==
  /\ producer.pc = "joined" /\ consumer.pc = "joined"
  /\ consumed = Counting(NumMessages)
  /\ Len(consumed) > Capacity
  /\ buffer_[0] = Capacity

\* C24: the queue holds at most Capacity - 1 elements; size() is the number
\* of successful pushes minus the number of successful pops, and empty()
\* holds iff size() is 0; a try_push returns false exactly when the queue
\* holds Capacity - 1 elements, a try_pop returns nothing exactly when the
\* queue is empty, and neither changes head_, tail_ or buffer_ then.
C24_Bounds ==
  /\ [](/\ Held \in 0..(Capacity - 1)
        /\ size(head_, tail_) = Held
        /\ empty(head_, tail_) <=> (size(head_, tail_) = 0))
  /\ [][/\ (producer.pc = "load_head" /\ producer' # producer) =>
             /\ (producer'.pc = "load_tail") <=> (Held = Capacity - 1)
             /\ (producer'.pc = "load_tail") =>
                  UNCHANGED <<head_, tail_, buffer_, accepted>>
        /\ (consumer.pc = "load_tail" /\ consumer' # consumer) =>
             /\ (consumer'.pc = "load_done") <=> (Held = 0)
             /\ (consumer'.pc = "load_done") =>
                  UNCHANGED <<head_, tail_, buffer_, consumed>>]_vars

\* a try_push is about to fail on a full ring that has wrapped around
C24_Witness ==
  /\ producer.pc = "load_head"
  /\ full(producer.nxt_tail, head_)
  /\ Held = Capacity - 1
  /\ size(head_, tail_) = Capacity - 1
  /\ tail_ < head_

\* a try_pop is about to return nothing on an empty ring
C24_EmptyPopReached ==
  /\ consumer.pc = "load_tail"
  /\ consumer.cur_head = tail_
  /\ Held = 0 /\ Len(consumed) > 0

\* C25: the producer retries try_push until each of its NumMessages values is
\* accepted and then sets done; the consumer pops while done is unset or the
\* queue is not empty. When both threads keep being scheduled, every value is
\* consumed and both threads end.
C25_Progress ==
  <>[](/\ producer.pc = "joined"
       /\ consumer.pc = "joined"
       /\ Len(consumed) = NumMessages
       /\ \A v \in 0..(NumMessages - 1) :
            \E k \in 1..Len(consumed) : consumed[k] = v)

\* both threads have ended, the flag is set, the ring is empty and
\* NumMessages values were consumed
C25_Witness ==
  /\ done
  /\ producer.pc = "joined" /\ consumer.pc = "joined"
  /\ Len(consumed) = NumMessages
  /\ empty(head_, tail_)

----------------------------------------------------------------------------
(* The two checksum functions *)

\* C26: Parser::calculate_checksum and MessageBuilder::calculate_checksum
\* return the same integer for every byte string, so the value the builder
\* writes after a message prefix is the value the parser recomputes for that
\* prefix when it reads the trailer back.
C26_SameChecksum ==
  summed.called =>
    /\ summed.parser = summed.builder
    /\ to_int(FormatInt03(summed.builder)) = Some(summed.parser)

\* the two functions agree on a string with a byte above 0x7F, where the sum
\* of signed chars is negative
C26_Witness ==
  /\ summed.called
  /\ \E k \in 1..Len(span) : CharToInt(span[k]) < 0
  /\ summed.parser < 0
  /\ summed.parser = summed.builder

----------------------------------------------------------------------------
(* Where the tag-value parser stops *)

\* the index of the first piece of ps that reads 10=value<SOH>, 0 when there
\* is none
FirstTagTenPiece(ps) ==
  LET hits == {k \in 1..Len(ps) :
                 WellFormedPiece(ps[k]) /\ PieceTag(ps[k]) = 10}
  IN IF hits = {} THEN 0 ELSE CHOOSE k \in hits : \A j \in hits : k <= j

\* the number of bytes up to and including the SOH that ends the first field
\* with tag 10, 0 when there is no such field
ThroughFirstTagTen(buf) ==
  LET ps == SplitFields(buf)
      k == FirstTagTenPiece(ps)
  IN IF k = 0 THEN 0 ELSE PieceOffset(ps, k) + Len(ps[k].text) + 1

\* C29: Parser::parse stops at the first field with tag 10. Its outcome, the
\* success or the error kind and every value of the returned message, is the
\* outcome on the bytes up to and including the SOH that ends that field, so
\* bytes after the Checksum field change nothing and are never rejected.
C29_StopsAtChecksum ==
  (WasParsed /\ ThroughFirstTagTen(buffer) > 0) =>
    parsed = Parse(SubSeq(buffer, 1, ThroughFirstTagTen(buffer)))

\* an accepted buffer that goes on after its Checksum field
C29_Witness ==
  /\ WasParsed /\ parsed.ok
  /\ ThroughFirstTagTen(buffer) > 0
  /\ ThroughFirstTagTen(buffer) < Len(buffer)
  /\ Parse(SubSeq(buffer, 1, ThroughFirstTagTen(buffer))).ok

\* a buffer rejected for its checksum that goes on after its Checksum field
C29_RejectedWithTrailerReached ==
  /\ parsed = ParseErr("InvalidCheckSum")
  /\ ThroughFirstTagTen(buffer) > 0
  /\ ThroughFirstTagTen(buffer) < Len(buffer)

----------------------------------------------------------------------------
(* Why the tag-value parser ends *)

RECURSIVE FieldCalls(_)
\* the parse_field calls that return a field when the remaining buffer is
\* tokenized again and again, as Parser::parse does: the input length of each
\* call, first call first
FieldCalls(remaining) ==
  IF remaining = <<>> THEN <<>>
  ELSE LET field == parse_field(remaining)
       IN IF field.tag = SentinelTag THEN <<>>
          ELSE <<[input |-> Len(remaining), rest |-> Len(field.rest)]>>
               \o FieldCalls(field.rest)

\* C30: Parser::parse ends on every buffer. Each parse_field call that returns
\* a field returns a remaining buffer strictly shorter than its input, at
\* least a tag digit, the '=' and the SOH being consumed, so each round of the
\* body loop returns, breaks or goes on with a shorter buffer; the number of
\* fields appended is bounded by the length of the buffer.
C30_Terminates ==
  LET calls == FieldCalls(buffer)
  IN /\ \A k \in 1..Len(calls) : calls[k].rest + 3 <= calls[k].input
     /\ \A k \in 1..Len(calls) : calls[k].rest < calls[k].input
     /\ Len(calls) <= Len(buffer)
     /\ WasParsed =>
          \/ ~parsed.ok /\ parsed.msg = EmptyView
          \/ /\ parsed.ok
             /\ Len(parsed.msg.fields) <= Len(buffer)
             /\ Len(parsed.msg.fields) + 4 <= Len(calls)

\* an accepted buffer with a field of three bytes, 8=<SOH>, and a body field
C30_Witness ==
  /\ WasParsed /\ parsed.ok
  /\ Len(parsed.msg.fields) >= 1
  /\ \E k \in 1..Len(FieldCalls(buffer)) :
       FieldCalls(buffer)[k].rest + 3 = FieldCalls(buffer)[k].input

====
